---- MODULE Spec2Model ----
(***************************************************************************)
(* Model of the device-communication engine of hottoh_api: the wire-frame  *)
(* codec (Request::build_message, Response::from_message, the payload      *)
(* parsers), the three threads of TcpClient (start_tcp_thread,             *)
(* message_management_thread, periodic_request_thread), the HTTP submit    *)
(* boundary (handle_request) and the shared device-state record.           *)
(*                                                                         *)
(* Text is modelled as a sequence of one-character strings, so that the    *)
(* fixed byte offsets of the codec are sequence indices (Rust offset k is  *)
(* index k+1 here).  Only ASCII text is modelled: one character, one byte. *)
(***************************************************************************)
EXTENDS Integers, Sequences, FiniteSets, TLC

(***************************************************************************)
(* Characters and numbers                                                  *)
(***************************************************************************)

\* Printable ASCII in code order; Printable[i] has code 31 + i.  (The grave
\* accent, code 96, is held by a placeholder: it is never used in a frame.)
Printable ==
  << " ", "!", "\"", "#", "$", "%", "&", "'", "(", ")", "*", "+", ",", "-",
     ".", "/", "0", "1", "2", "3", "4", "5", "6", "7", "8", "9", ":", ";",
     "<", "=", ">", "?", "@", "A", "B", "C", "D", "E", "F", "G", "H", "I",
     "J", "K", "L", "M", "N", "O", "P", "Q", "R", "S", "T", "U", "V", "W",
     "X", "Y", "Z", "[", "\\", "]", "^", "_", "<grave>", "a", "b", "c", "d", "e",
     "f", "g", "h", "i", "j", "k", "l", "m", "n", "o", "p", "q", "r", "s",
     "t", "u", "v", "w", "x", "y", "z", "{", "|", "}", "~" >>

NL == "\n"

\* The byte of a character (str::as_bytes on ASCII text).
as_byte(c) ==
  IF c = NL THEN 10
  ELSE 31 + (CHOOSE i \in 1..Len(Printable) : Printable[i] = c)

DecDigits == <<"0", "1", "2", "3", "4", "5", "6", "7", "8", "9">>
HexDigits == <<"0", "1", "2", "3", "4", "5", "6", "7", "8", "9",
               "A", "B", "C", "D", "E", "F">>
HexLower  == <<"0", "1", "2", "3", "4", "5", "6", "7", "8", "9",
               "a", "b", "c", "d", "e", "f">>

IsDecDigit(c) == \E i \in 1..10 : DecDigits[i] = c
IsHexDigit(c) == \E i \in 1..16 : HexDigits[i] = c \/ HexLower[i] = c
DecVal(c) == (CHOOSE i \in 1..10 : DecDigits[i] = c) - 1
HexVal(c) == (CHOOSE i \in 1..16 : HexDigits[i] = c \/ HexLower[i] = c) - 1

\* s[from..to) with the half-open, zero-based offsets.
Slice(s, from, to) == SubSeq(s, from + 1, to)

RECURSIVE Digits(_, _, _)
\* The digits of n in the given base, most significant first ("" for 0).
Digits(n, base, table) ==
  IF n = 0 THEN << >>
  ELSE Append(Digits(n \div base, base, table), table[(n % base) + 1])

\* u32::to_string
to_string(n) == IF n = 0 THEN <<"0">> ELSE Digits(n, 10, DecDigits)

RECURSIVE ZeroPad(_, _)
ZeroPad(s, width) == IF Len(s) >= width THEN s ELSE ZeroPad(<<"0">> \o s, width)

\* format!("{:05}", n): decimal, zero-padded to at least five characters.
fmt_05(n) == ZeroPad(Digits(n, 10, DecDigits), 5)

\* format!("{:04X}", n): upper-case hex, zero-padded to at least four.
fmt_04X(n) == ZeroPad(Digits(n, 16, HexDigits), 4)

RECURSIVE DecValue(_)
DecValue(s) == IF s = << >> THEN 0
               ELSE 10 * DecValue(SubSeq(s, 1, Len(s) - 1)) + DecVal(s[Len(s)])

RECURSIVE HexValue(_)
HexValue(s) == IF s = << >> THEN 0
               ELSE 16 * HexValue(SubSeq(s, 1, Len(s) - 1)) + HexVal(s[Len(s)])

\* A parse yields <<v>> (Ok(v)) or the empty tuple (Err).
ParseErr == << >>
ParseOk(v) == <<v>>
Parsed(r) == r[1]

\* str::parse for an unsigned integer of the given maximum: an optional '+'
\* followed by one or more decimal digits, within range.
parse_unsigned(s, max) ==
  LET body == IF s # << >> /\ s[1] = "+" THEN Tail(s) ELSE s
  IN IF body = << >> \/ \E i \in 1..Len(body) : ~IsDecDigit(body[i])
       THEN ParseErr
       ELSE IF DecValue(body) > max THEN ParseErr ELSE ParseOk(DecValue(body))

\* str::parse for a signed integer in min..max: an optional sign, digits.
parse_signed(s, min, max) ==
  LET neg  == s # << >> /\ s[1] = "-"
      body == IF s # << >> /\ (s[1] = "+" \/ s[1] = "-") THEN Tail(s) ELSE s
  IN IF body = << >> \/ \E i \in 1..Len(body) : ~IsDecDigit(body[i])
       THEN ParseErr
       ELSE LET v == IF neg THEN 0 - DecValue(body) ELSE DecValue(body)
            IN IF v < min \/ v > max THEN ParseErr ELSE ParseOk(v)

U16Max == 65535
I16Min == -32768
I16Max == 32767
I32Max == 2147483647

parse_u16(s) == parse_unsigned(s, U16Max)
parse_i16(s) == parse_signed(s, I16Min, I16Max)
parse_i32(s) == parse_signed(s, 0 - I32Max - 1, I32Max)

\* str::parse::<u32> of the five characters of the identifier field: five
\* digits never exceed the range of u32, so only the syntax can fail.
parse_u32(s) == parse_unsigned(s, I32Max)

\* usize::from_str_radix(s, 16): an optional '+' and hex digits of either case.
from_str_radix_16(s) ==
  LET body == IF s # << >> /\ s[1] = "+" THEN Tail(s) ELSE s
  IN IF body = << >> \/ \E i \in 1..Len(body) : ~IsHexDigit(body[i])
       THEN ParseErr
       ELSE ParseOk(HexValue(body))

\* str::split(sep): the pieces between separators; n separators, n+1 pieces.
split(s, sep) ==
  LET at == {i \in 1..Len(s) : s[i] = sep}
      \* the position of the k-th separator; 0 and Len(s)+1 close the ends
      pos(k) == IF k = 0 THEN 0
                ELSE IF k > Cardinality(at) THEN Len(s) + 1
                ELSE CHOOSE p \in at : Cardinality({q \in at : q < p}) = k - 1
  IN [k \in 1..(Cardinality(at) + 1) |-> SubSeq(s, pos(k - 1) + 1, pos(k) - 1)]

RECURSIVE join(_, _)
\* [String]::join(sep)
join(parts, sep) ==
  IF parts = << >> THEN << >>
  ELSE IF Len(parts) = 1 THEN parts[1]
       ELSE parts[1] \o <<sep>> \o join(Tail(parts), sep)

(***************************************************************************)
(* CRC-16/CCITT-FALSE: polynomial 0x1021, initial value 0xFFFF, no         *)
(* reflection, no final xor.                                               *)
(***************************************************************************)

\* Bit k of a xor b, in place (w is 2^k).
XorBit(a, b, w) == (((a \div w) + (b \div w)) % 2) * w

\* a ^ b on 16-bit words.
Xor(a, b) ==
    XorBit(a, b, 1) + XorBit(a, b, 2) + XorBit(a, b, 4) + XorBit(a, b, 8)
  + XorBit(a, b, 16) + XorBit(a, b, 32) + XorBit(a, b, 64) + XorBit(a, b, 128)
  + XorBit(a, b, 256) + XorBit(a, b, 512) + XorBit(a, b, 1024)
  + XorBit(a, b, 2048) + XorBit(a, b, 4096) + XorBit(a, b, 8192)
  + XorBit(a, b, 16384) + XorBit(a, b, 32768)

CrcPoly == 4129    \* 0x1021
CrcInit == 65535   \* 0xFFFF
Word16  == 65536

\* One shift of the register: the top bit out, the polynomial in if it was 1.
CrcShift1(crc) ==
  IF crc >= 32768 THEN Xor((2 * crc) % Word16, CrcPoly) ELSE (2 * crc) % Word16

\* The register after one more byte: the byte into the high half, 8 shifts.
CrcByte(crc, byte) ==
  CHOOSE r \in
    { CrcShift1(CrcShift1(CrcShift1(CrcShift1(s4)))) :
        s4 \in { CrcShift1(CrcShift1(CrcShift1(CrcShift1(s0)))) :
                   s0 \in {Xor(crc, 256 * byte)} } } : TRUE

RECURSIVE CrcDigest(_, _)
\* The register after the bytes of data, taken in order (the text is halved
\* only to keep the evaluation shallow).
CrcDigest(crc, data) ==
  IF data = << >> THEN crc
  ELSE IF Len(data) = 1 THEN CrcByte(crc, as_byte(data[1]))
  ELSE LET half == Len(data) \div 2
       IN CHOOSE r \in
            { CrcDigest(mid, SubSeq(data, half + 1, Len(data))) :
                mid \in {CrcDigest(crc, SubSeq(data, 1, half))} } : TRUE

\* calculate_checksum: the CRC of the text as four upper-case hex digits.
calculate_checksum(data) == fmt_04X(CrcDigest(CrcInit, data))

(***************************************************************************)
(* Protocol constants (hottoh_const.rs)                                    *)
(***************************************************************************)

CommandTypes == {"Read", "Write", "Execute"}
Commands == {"Inf", "Dat", "Dat0", "Dat1", "Dat2", "DatReqResponse"}

CommandType_as_str(t) ==
  CASE t = "Read"    -> <<"R">>
    [] t = "Write"   -> <<"W">>
    [] t = "Execute" -> <<"E">>

CommandType_from_str(s) ==
  CASE s = <<"R">> -> ParseOk("Read")
    [] s = <<"W">> -> ParseOk("Write")
    [] s = <<"E">> -> ParseOk("Execute")
    [] OTHER       -> ParseErr

Command_as_str(c) ==
  CASE c = "Inf"  -> <<"I", "N", "F">>
    [] c = "Dat"  -> <<"D", "A", "T">>
    [] c = "Dat0" -> <<"D", "A", "T", "0">>
    [] c = "Dat1" -> <<"D", "A", "T", "1">>
    [] c = "Dat2" -> <<"D", "A", "T", "2">>
    [] c = "DatReqResponse" ->
         <<"D", "A", "T", "R", "e", "q", "R", "e", "s", "p", "o", "n", "s", "e">>

Command_from_str(s) ==
  IF \E c \in Commands : Command_as_str(c) = s
    THEN ParseOk(CHOOSE c \in Commands : Command_as_str(c) = s)
    ELSE ParseErr

\* The numeric codes StoveState::from_str accepts.
StoveStateCodes == (0..17) \cup {60, 61, 69}

StoveState_from_str(s) ==
  LET num == parse_i32(s)
  IN IF num = ParseErr THEN ParseErr
     ELSE IF Parsed(num) \in StoveStateCodes THEN num ELSE ParseErr

parse_bool(s) ==
  CASE s = <<"0">> -> ParseOk(FALSE)
    [] s = <<"1">> -> ParseOk(TRUE)
    [] OTHER       -> ParseErr

(***************************************************************************)
(* Payload records (hottoh_structs.rs).  The capture timestamp             *)
(* last_updated is a reading of the wall clock and is left out.            *)
(***************************************************************************)

Ok(v)  == [tag |-> "Ok", val |-> v]
Err(e) == [tag |-> "Err", err |-> e]
Panic  == [tag |-> "Panic"]

IncorrectResponseStruct == "IncorrectResponseStruct"
NotImplemented == "NotImplemented"

\* One field of a payload, parsed as the type of the struct member.
ParseField(type, token) ==
  CASE type = "u16"   -> parse_u16(token)
    [] type = "i16"   -> parse_i16(token)
    [] type = "bool"  -> parse_bool(token)
    [] type = "state" -> StoveState_from_str(token)

\* The record with the given <<name, type, index>> members read from
\* response_data (index is the zero-based offset of the source).
ParseMembers(members, response_data) ==
  [n \in {members[i][1] : i \in 1..Len(members)} |->
     LET m == CHOOSE i \in 1..Len(members) : members[i][1] = n
     IN ParseField(members[m][2], response_data[members[m][3] + 1])]

AnyParseErr(rec) == \E n \in DOMAIN rec : rec[n] = ParseErr
Unwrapped(rec) == [n \in DOMAIN rec |-> Parsed(rec[n])]

INFData_default == [hostname |-> << >>, version |-> << >>, signal |-> << >>]

INFData_from_slice(response_data) ==
  IF Len(response_data) # 3 THEN Err(IncorrectResponseStruct)
  ELSE Ok([hostname |-> response_data[1],
           version  |-> response_data[2],
           signal   |-> response_data[3]])

DATReqResponseData_from_slice(response_data) ==
  IF Len(response_data) # 1 THEN Err(IncorrectResponseStruct)
  ELSE Ok([value |-> response_data[1]])

Bit(v, k) == (v \div (2 ^ k)) % 2 = 1

DAT0Members ==
  << <<"index_page", "u16", 0>>,
     <<"index_manufacturer", "u16", 1>>,
     <<"index_bitmap_visible", "bool", 2>>,
     <<"index_valid", "bool", 3>>,
     <<"index_stove_type", "u16", 4>>,
     <<"index_stove_state", "state", 5>>,
     <<"index_stove_on", "bool", 6>>,
     <<"index_eco_mode", "bool", 7>>,
     <<"index_timer_on", "u16", 8>>,
     <<"index_ambient_t1", "i16", 9>>,
     <<"index_ambient_t1_set", "i16", 10>>,
     <<"index_ambient_t1_set_min", "i16", 11>>,
     <<"index_ambient_t1_set_max", "i16", 12>>,
     <<"index_ambient_t2", "i16", 13>>,
     <<"index_ambient_t2_set", "i16", 14>>,
     <<"index_ambient_t2_set_min", "i16", 15>>,
     <<"index_ambient_t2_set_max", "i16", 16>>,
     <<"index_water", "i16", 17>>,
     <<"index_water_set", "i16", 18>>,
     <<"index_water_set_min", "i16", 19>>,
     <<"index_water_set_max", "i16", 20>>,
     <<"index_smoke_t", "i16", 21>>,
     <<"index_power_level", "u16", 22>>,
     <<"index_power_set", "u16", 23>>,
     <<"index_power_min", "u16", 24>>,
     <<"index_power_max", "u16", 25>>,
     <<"index_fan_smoke", "u16", 26>>,
     <<"index_fan_1", "u16", 27>>,
     <<"index_fan_1_set", "u16", 28>>,
     <<"index_fan_1_set_max", "u16", 29>>,
     <<"index_fan_2", "u16", 30>>,
     <<"index_fan_2_set", "u16", 31>>,
     <<"index_fan_2_set_max", "u16", 32>>,
     <<"index_fan_3", "u16", 33>>,
     <<"index_fan_3_set", "u16", 34>>,
     <<"index_fan_3_set_max", "u16", 35>> >>

\* The facets at the bit positions of the lines commented out (129-136).
DeviceTypeFacets_OldLayout(index_stove_type) ==
  [boiler_enabled             |-> Bit(index_stove_type, 9),
   domestic_hot_water_enabled |-> Bit(index_stove_type, 10),
   fan_number                 |-> (index_stove_type \div 4096) % 4,
   temp_room1_enabled         |-> Bit(index_stove_type, 15),
   temp_room2_enabled         |-> Bit(index_stove_type, 8),
   temp_room3_enabled         |-> Bit(index_stove_type, 7),
   temp_water_enabled         |-> Bit(index_stove_type, 14),
   pump_enabled               |-> Bit(index_stove_type, 4)]

\* The facets DAT0Data::from_slice derives from the device-type value.
DeviceTypeFacets(index_stove_type) ==
  [boiler_enabled             |-> Bit(index_stove_type, 6),
   domestic_hot_water_enabled |-> Bit(index_stove_type, 5),
   fan_number                 |-> (index_stove_type \div 4) % 4,
   temp_room1_enabled         |-> Bit(index_stove_type, 0),
   temp_room2_enabled         |-> Bit(index_stove_type, 8),
   temp_room3_enabled         |-> Bit(index_stove_type, 7),
   temp_water_enabled         |-> Bit(index_stove_type, 1),
   pump_enabled               |-> Bit(index_stove_type, 4)]

DAT0Data_from_slice(response_data) ==
  IF Len(response_data) # 36 THEN Err(IncorrectResponseStruct)
  ELSE LET rec == ParseMembers(DAT0Members, response_data)
       IN IF AnyParseErr(rec) THEN Err(IncorrectResponseStruct)
          ELSE Ok(Unwrapped(rec)
                    @@ DeviceTypeFacets(Parsed(rec.index_stove_type)))

DAT1Members ==
  << <<"index_page", "i16", 0>>,
     <<"index_state", "bool", 0>>,
     <<"index_temperature_1", "i16", 1>>,
     <<"index_temperature_1_min", "i16", 2>>,
     <<"index_temperature_1_max", "i16", 3>>,
     <<"index_temperature_2", "i16", 4>>,
     <<"index_temperature_2_min", "i16", 5>>,
     <<"index_temperature_2_max", "i16", 6>>,
     <<"index_temperature_3", "i16", 7>>,
     <<"index_temperature_3_min", "i16", 8>>,
     <<"index_temperature_3_max", "i16", 9>> >>

DAT1Data_from_slice(response_data) ==
  IF Len(response_data) # 11 THEN Err(IncorrectResponseStruct)
  ELSE LET rec == ParseMembers(DAT1Members, response_data)
       IN IF AnyParseErr(rec) THEN Err(IncorrectResponseStruct)
          ELSE Ok(Unwrapped(rec))

DAT2Members ==
  << <<"index_page", "i16", 0>>,
     <<"index_flow_switch", "u16", 1>>,
     <<"index_generic_pump", "u16", 2>>,
     <<"index_airex_1", "u16", 3>>,
     <<"index_airex_2", "u16", 4>>,
     <<"index_airex_3", "u16", 5>>,
     <<"index_puffer", "i16", 6>>,
     <<"index_puffer_set", "i16", 7>>,
     <<"index_puffer_set_min", "i16", 8>>,
     <<"index_puffer_set_max", "i16", 9>>,
     <<"index_boiler", "i16", 10>>,
     <<"index_boiler_set", "i16", 11>>,
     <<"index_boiler_set_min", "i16", 12>>,
     <<"index_boiler_set_max", "i16", 13>>,
     <<"index_dhw", "i16", 14>>,
     <<"index_dhw_set", "i16", 15>>,
     <<"index_dhw_set_min", "i16", 16>>,
     <<"index_dhw_set_max", "i16", 17>>,
     <<"index_room_temp_3", "i16", 18>>,
     <<"index_room_temp_3_set", "i16", 19>>,
     <<"index_room_temp_3_set_min", "i16", 20>>,
     <<"index_room_temp_3_set_max", "i16", 21>> >>

DAT2Data_from_slice(response_data) ==
  IF Len(response_data) # 22 THEN Err(IncorrectResponseStruct)
  ELSE LET rec == ParseMembers(DAT2Members, response_data)
       IN IF AnyParseErr(rec) THEN Err(IncorrectResponseStruct)
          ELSE Ok(Unwrapped(rec))

\* The Default of a payload struct: every number 0, every flag false
\* (StoveState::Off is code 0).
DefaultOf(members) ==
  [n \in {members[i][1] : i \in 1..Len(members)} |->
     LET m == CHOOSE i \in 1..Len(members) : members[i][1] = n
     IN IF members[m][2] = "bool" THEN FALSE ELSE 0]

DAT0Data_default == DefaultOf(DAT0Members) @@ DeviceTypeFacets(0)
DAT1Data_default == DefaultOf(DAT1Members)
DAT2Data_default == DefaultOf(DAT2Members)

\* CommandData: the payload variant with its record.
CommandData(variant, data) == [variant |-> variant, data |-> data]

\* Response::command_data_from_vec
command_data_from_vec(data, command) ==
  LET wrap(variant, r) ==
        IF r.tag = "Ok" THEN Ok(CommandData(variant, r.val)) ELSE r
  IN CASE command = "Inf"  -> wrap("Inf", INFData_from_slice(data))
       [] command = "Dat0" -> wrap("Dat0", DAT0Data_from_slice(data))
       [] command = "Dat1" -> wrap("Dat1", DAT1Data_from_slice(data))
       [] command = "Dat2" -> wrap("Dat2", DAT2Data_from_slice(data))
       [] command = "DatReqResponse" ->
            wrap("DATReqResponse", DATReqResponseData_from_slice(data))
       [] OTHER -> Err(NotImplemented)

(***************************************************************************)
(* Frames (tcp_client_structs.rs)                                          *)
(***************************************************************************)

\* Option<Instant>: None, or Some of the ticks elapsed since the instant.
None == << >>
Some(v) == <<v>>
unwrap(option) == option[1]

\* Request::new.  writes is bookkeeping of the model: how many times
\* write_all has put the frame of this request on the socket.
Request_new(req_id, command, command_type, params) ==
  [req_id |-> req_id, command |-> command, command_type |-> command_type,
   params |-> params, sent |-> FALSE, sent_at |-> None,
   marked_as_deleted |-> FALSE, writes |-> 0]

\* self.params.join(";") + ";"
ParamSection(params) == Append(join(params, ";"), ";")

\* build_message with the checksum taken over the frame from its '#' on.
build_message_CrcOverFrame(request) ==
  LET cmd_type_str == CommandType_as_str(request.command_type)
      command   == Command_as_str(request.command)
      params    == ParamSection(request.params)
      length    == fmt_04X(Len(params))
      crc_input == <<"#">> \o fmt_05(request.req_id) \o <<"C", "-", "-", "-">>
                     \o length \o command \o cmd_type_str \o params
      checksum  == calculate_checksum(crc_input)
  IN <<"#">> \o fmt_05(request.req_id) \o <<"C", "-", "-", "-">> \o length
       \o command \o cmd_type_str \o params \o checksum \o <<NL>>

\* Request::build_message
build_message(request) ==
  LET cmd_type_str == CommandType_as_str(request.command_type)
      command   == Command_as_str(request.command)
      params    == ParamSection(request.params)
      length    == fmt_04X(Len(params))
      crc_input == fmt_05(request.req_id) \o <<"C", "-", "-", "-">> \o length
                     \o command \o cmd_type_str \o params
      checksum  == calculate_checksum(crc_input)
  IN <<"#">> \o fmt_05(request.req_id) \o <<"C", "-", "-", "-">> \o length
       \o command \o cmd_type_str \o params \o checksum \o <<NL>>

\* The re-specialisation without the arm of the acknowledgement.
Respecialize_NoAck(command, count) ==
  IF command # "Dat" THEN command
  ELSE CASE count = 36 -> "Dat0"
         [] count = 11 -> "Dat1"
         [] count = 22 -> "Dat2"
         [] OTHER      -> command

\* The re-specialisation of the generic data command by parameter count.
Respecialize(command, count) ==
  IF command # "Dat" THEN command
  ELSE CASE count = 36 -> "Dat0"
         [] count = 11 -> "Dat1"
         [] count = 22 -> "Dat2"
         [] count = 1  -> "DatReqResponse"
         [] OTHER      -> command

\* The fixed-offset part of Response::from_message (lines 243-268): the
\* fields of the frame and the checksum test.  A slice whose bounds lie
\* outside the text panics; every other failure is an Err.
parse_frame(message) ==
  LET len == Len(message)
  IN IF len < 6 THEN Panic
     ELSE LET req_id_r == parse_u32(Slice(message, 1, 6))
              req_id == Parsed(req_id_r)
     IN IF req_id_r = ParseErr THEN Err("Invalid req_id")
     ELSE IF len < 7 THEN Err("Missing req_id separator character")
     ELSE LET req_id_char == message[7]
     IN IF len < 14 THEN Panic
     ELSE LET params_len_r == from_str_radix_16(Slice(message, 10, 14))
              params_len == Parsed(params_len_r)
     IN IF params_len_r = ParseErr THEN Err("Invalid param length")
     ELSE IF len < 17 THEN Panic
     ELSE LET command_r == Command_from_str(Slice(message, 14, 17))
              command == Parsed(command_r)
     IN IF command_r = ParseErr THEN Err("Invalid command")
     ELSE IF len < 18 THEN Panic
     ELSE LET command_type_r == CommandType_from_str(Slice(message, 17, 18))
              command_type == Parsed(command_type_r)
     IN IF command_type_r = ParseErr THEN Err("Invalid command")
     ELSE IF len - 6 < 18 THEN Panic
     ELSE LET params_section == Slice(message, 18, len - 6)
              crc == Slice(message, len - 5, len - 1)
              params == split(params_section, ";")
              crc_response ==
                fmt_05(req_id) \o <<req_id_char>> \o <<"-", "-", "-">>
                  \o fmt_04X(params_len) \o Command_as_str(command)
                  \o CommandType_as_str(command_type) \o ParamSection(params)
     IN Ok([req_id |-> req_id, command |-> command,
            command_type |-> command_type, params_len |-> params_len,
            params |-> params, crc |-> crc,
            crc_is_valid |-> (crc = calculate_checksum(crc_response))])

\* Response::from_message: the fields, the re-specialisation of the command
\* and the payload (lines 270-298).
from_message(message) ==
  LET fields == parse_frame(message)
  IN IF fields.tag # "Ok" THEN fields
     ELSE LET f == fields.val
              command == Respecialize(f.command, Len(f.params))
              command_data == command_data_from_vec(f.params, command)
          IN IF command_data.tag # "Ok" THEN command_data
             ELSE Ok([req_id |-> f.req_id, command |-> command,
                      command_type |-> f.command_type,
                      params_len |-> f.params_len, params |-> f.params,
                      command_data |-> command_data.val, crc |-> f.crc,
                      crc_is_valid |-> f.crc_is_valid,
                      marked_as_deleted |-> FALSE])

(***************************************************************************)
(* Bounds of the model and the inputs of the environment                   *)
(***************************************************************************)

\* Ticks of the model clock per second: 2 gives half-second resolution.
TicksPerSec == 2
\* Identifiers handed out in one run.
MaxAlloc == 5
\* Responses waiting in the response queue when a read is taken.
MaxResQ == 1

IdModulus == 100000
TimeoutSecs == 5
SendPeriodSecs == 1

\* An Instant is held as the ticks elapsed since it: the code reads an
\* Instant only through elapsed().  Ages saturate where the code no longer
\* tells them apart.
MaxSentAge == (TimeoutSecs + 1) * TicksPerSec
MaxGateAge == SendPeriodSecs * TicksPerSec

\* The clock is sampled at three ages of an Instant: just taken, the shortest
\* age of the model over the timeout (5.5 s at two ticks per second), and
\* saturated.  One step of the clock is that shortest age.
ClockStep == TimeoutSecs * TicksPerSec + 1

Min(a, b) == IF a < b THEN a ELSE b

\* The age read in whole minutes where seconds are meant.
as_secs_Minutes(ticks) == ticks \div (60 * TicksPerSec)

\* Duration::as_secs: whole seconds, the fraction dropped.
as_secs(ticks) == ticks \div TicksPerSec

\* A frame as the device puts it on the wire; corrupt changes the last
\* character of the checksum.
DeviceFrame(req_id, code, type, params, corrupt) ==
  LET section  == ParamSection(params)
      body     == fmt_05(req_id) \o <<"A", "-", "-", "-">>
                    \o fmt_04X(Len(section)) \o code \o type \o section
      checksum == calculate_checksum(body)
      last     == IF checksum[4] = "0" THEN "1" ELSE "0"
      sent_crc == IF corrupt THEN SubSeq(checksum, 1, 3) \o <<last>>
                  ELSE checksum
  IN <<"#">> \o body \o sent_crc \o <<NL>>

INF == <<"I", "N", "F">>
DAT == <<"D", "A", "T">>

InfA == << <<"h">>, <<"1">>, <<"9">> >>
InfB == << <<"g">>, <<"2">>, <<"8">> >>
Page0 == [i \in 1..36 |->
            CASE i = 5  -> <<"4", "9", "9">>
              [] i = 10 -> <<"3", "7", "0">>
              [] i = 11 -> <<"-", "1", "5">>
              [] OTHER  -> <<"1">>]
Page1 == [i \in 1..11 |-> IF i = 2 THEN <<"3", "7", "0">> ELSE <<"1">>]
Page2 == [i \in 1..22 |-> IF i = 1 THEN <<"2">> ELSE <<"1">>]
Ack   == << <<"0">> >>
TwoFields == << <<"0">>, <<"1">> >>

\* The repertoires of the device: what one read of the socket can return in
\* a run against a device of that kind.
Devices ==
  {"faulty", "info", "pages", "records", "repeats", "silent", "truncated"}

\* Lengths at which a read can cut a frame short: inside the identifier,
\* right after it, inside the length field.
TruncatedLengths == {3, 6, 12}

DeviceBuffers(d) ==
  CASE d = "info" ->
         { DeviceFrame(0, INF, <<"R">>, InfA, FALSE),
           DeviceFrame(0, INF, <<"R">>, InfB, TRUE) }
    [] d = "pages" ->
         { DeviceFrame(0, DAT, <<"R">>, Page0, FALSE),
           DeviceFrame(1, DAT, <<"R">>, Page1, FALSE),
           DeviceFrame(1, DAT, <<"R">>, TwoFields, FALSE),
           DeviceFrame(1, DAT, <<"R">>, Ack, FALSE)
             \o DeviceFrame(0, DAT, <<"R">>, Page2, FALSE) }
    [] d = "records" ->
         { DeviceFrame(0, INF, <<"R">>, InfA, FALSE),
           DeviceFrame(1, INF, <<"R">>, InfB, FALSE),
           DeviceFrame(0, DAT, <<"R">>, Page0, FALSE),
           DeviceFrame(1, DAT, <<"R">>, Page1, FALSE),
           DeviceFrame(1, DAT, <<"R">>, Page2, FALSE),
           DeviceFrame(0, DAT, <<"R">>, Ack, FALSE) }
    [] d = "repeats" ->
         { DeviceFrame(0, INF, <<"R">>, InfA, FALSE)
             \o DeviceFrame(0, INF, <<"R">>, InfB, FALSE),
           DeviceFrame(0, INF, <<"R">>, InfB, FALSE) }
    [] d = "silent" -> { }
    [] d = "truncated" ->
         { SubSeq(DeviceFrame(0, INF, <<"R">>, InfA, FALSE), 1, n)
             : n \in TruncatedLengths }
    [] d = "faulty" ->
         { SubSeq(DeviceFrame(0, INF, <<"R">>, InfA, FALSE), 1, n)
             : n \in TruncatedLengths }
         \cup { DeviceFrame(0, INF, <<"R">>, InfA, FALSE) }

\* What the HTTP boundary can submit: <<action, value>>.
SubmitInputs == { <<0, <<"1">> >> }
\* Submitted requests waiting in the request queue.
MaxSubmitted == 1

(***************************************************************************)
(* State                                                                   *)
(***************************************************************************)

VARIABLES
  request_queue,       \* VecDeque<Request>
  response_queue,      \* VecDeque<Response>
  shared_state,        \* SharedState
  request_id_counter,  \* Mutex<u32>
  running,             \* AtomicBool
  tcp_pc,              \* position of the Connection Manager thread
  last_sent,           \* its send timer, as ticks elapsed
  mm_pc,               \* position of the Correlation Engine thread
  pr_pc,               \* position of the Poller thread
  device,              \* the kind of device at the other end of the socket
  codec,               \* a frame on its way through the codec alone
  locks,               \* the holder of each lock, where the locks are followed
  locals               \* local variables of the threads that hold them

vars == <<request_queue, response_queue, shared_state, request_id_counter,
          running, tcp_pc, last_sent, mm_pc, pr_pc, device, codec,
          locks, locals>>

CodecIdle == [stage |-> "idle"]

\* The locks of the shared objects: the Mutex of the counter and the RwLocks
\* of the two queues.
Locks == {"id", "req", "res"}
Free == "free"
LocksFree == [l \in Locks |-> Free]
\* No thread's local variables are followed.
NoLocals == << >>

\* SharedState::new
SharedState_new ==
  [inf  |-> INFData_default, dat0 |-> DAT0Data_default,
   dat1 |-> DAT1Data_default, dat2 |-> DAT2Data_default]

\* The state main constructs, before any thread has run.
Constructed ==
  /\ request_queue = << >>
  /\ response_queue = << >>
  /\ shared_state = SharedState_new
  /\ request_id_counter = 0
  /\ running = TRUE
  /\ tcp_pc = "connect"
  /\ last_sent = 0
  /\ mm_pc = "pass"
  /\ pr_pc = "inf"

Init ==
  /\ Constructed
  /\ device = "info"
  /\ codec = CodecIdle
  /\ locks = LocksFree
  /\ locals = NoLocals

(***************************************************************************)
(* Connection Manager: TcpClient::start_tcp_thread                         *)
(***************************************************************************)

\* mark_as_sent that records the instant and leaves the flag as it was.
mark_as_sent_NoFlag(request) == [request EXCEPT !.sent_at = Some(0)]

\* Request::mark_as_sent; Instant::now() is the instant zero ticks ago.
mark_as_sent(request) == [request EXCEPT !.sent = TRUE, !.sent_at = Some(0)]

Connected == tcp_pc \in {"send", "read"}

\* Loop top of the outer loop: the shutdown check, then the connect call.
TcpLoopTop ==
  /\ tcp_pc = "connect"
  /\ tcp_pc' = IF running THEN "connecting" ELSE "stopped"
  /\ UNCHANGED <<request_queue, response_queue, shared_state,
                 request_id_counter, running, last_sent, mm_pc, pr_pc, device, codec,
                 locks, locals>>

\* A failed connect ends the thread.
TcpConnect_GivesUp ==
  /\ tcp_pc = "connecting"
  /\ \E ok \in BOOLEAN :
       IF ok THEN tcp_pc' = "send" /\ last_sent' = 0
       ELSE tcp_pc' = "stopped" /\ UNCHANGED last_sent
  /\ UNCHANGED <<request_queue, response_queue, shared_state,
                 request_id_counter, running, mm_pc, pr_pc, device, codec,
                 locks, locals>>

\* TcpStream::connect returns: Ok starts the send timer, Err re-checks the
\* shutdown flag and retries after the pause.
TcpConnect ==
  /\ tcp_pc = "connecting"
  /\ \E ok \in BOOLEAN :
       IF ok THEN tcp_pc' = "send" /\ last_sent' = 0
       ELSE /\ tcp_pc' = IF running THEN "connect" ELSE "stopped"
            /\ UNCHANGED last_sent
  /\ UNCHANGED <<request_queue, response_queue, shared_state,
                 request_id_counter, running, mm_pc, pr_pc, device, codec,
                 locks, locals>>

\* What write_all returns to the send section (lines 112-124), and what
\* stream.read returns to the read section (lines 131-164): bytes, zero
\* bytes, would-block or another error.
WriteOutcomes == {"Ok", "WouldBlock", "Err"}
ReadOutcomes == {"Data", "Zero", "WouldBlock", "Err"}

\* The send section with the request marked as sent before write_all is
\* called, whatever the call returns.
SendSection_MarksBeforeWrite ==
  /\ tcp_pc = "send"
  /\ IF ~running
       THEN tcp_pc' = "stopped" /\ last_sent' = 0 /\ UNCHANGED request_queue
       ELSE IF /\ last_sent >= MaxGateAge
               /\ request_queue # << >>
               /\ ~request_queue[1].sent
         THEN \E outcome \in {"Ok", "WouldBlock", "Err"} :
                CASE outcome = "Ok" ->
                       /\ request_queue' =
                            [request_queue EXCEPT
                               ![1] = mark_as_sent([@ EXCEPT !.writes = @ + 1])]
                       /\ last_sent' = 0
                       /\ tcp_pc' = "read"
                  [] outcome = "WouldBlock" ->
                       /\ request_queue' =
                            [request_queue EXCEPT ![1] = mark_as_sent(@)]
                       /\ tcp_pc' = "send"
                       /\ UNCHANGED last_sent
                  [] outcome = "Err" ->
                       /\ request_queue' =
                            [request_queue EXCEPT ![1] = mark_as_sent(@)]
                       /\ tcp_pc' = "connect"
                       /\ last_sent' = 0
         ELSE tcp_pc' = "read" /\ UNCHANGED <<request_queue, last_sent>>
  /\ UNCHANGED <<response_queue, shared_state, request_id_counter, running,
                 mm_pc, pr_pc, device, codec>>

\* Top of the inner loop and the send section (lines 103-128).
SendWith(outcome) ==
  /\ tcp_pc = "send"
  /\ IF ~running
       THEN /\ outcome = "None"
            /\ tcp_pc' = "stopped" /\ last_sent' = 0 /\ UNCHANGED request_queue
       ELSE IF /\ last_sent >= MaxGateAge
               /\ request_queue # << >>
               /\ ~request_queue[1].sent
         THEN CASE outcome = "Ok" ->
                     /\ request_queue' =
                          [request_queue EXCEPT
                             ![1] = mark_as_sent([@ EXCEPT !.writes = @ + 1])]
                     /\ last_sent' = 0
                     /\ tcp_pc' = "read"
                [] outcome = "WouldBlock" ->
                     /\ tcp_pc' = "send"
                     /\ UNCHANGED <<request_queue, last_sent>>
                [] outcome = "Err" ->
                     /\ tcp_pc' = "connect"
                     /\ last_sent' = 0
                     /\ UNCHANGED request_queue
                [] OTHER -> FALSE
         ELSE /\ outcome = "None"
              /\ tcp_pc' = "read" /\ UNCHANGED <<request_queue, last_sent>>
  /\ UNCHANGED <<response_queue, shared_state, request_id_counter, running,
                 mm_pc, pr_pc, device, codec>>

\* The send section, whatever write_all returns.
SendSection == \E outcome \in {"None"} \cup WriteOutcomes : SendWith(outcome)

TcpSend == SendSection /\ UNCHANGED <<locks, locals>>

RECURSIVE NonEmpty(_)
NonEmpty(parts) ==
  IF parts = << >> THEN << >>
  ELSE IF Head(parts) = << >> THEN NonEmpty(Tail(parts))
       ELSE <<Head(parts)>> \o NonEmpty(Tail(parts))

\* response_str.split('#').filter(|s| !s.is_empty()), each re-prefixed.
Messages(buffer) ==
  LET parts == NonEmpty(split(buffer, "#"))
  IN [i \in 1..Len(parts) |-> <<"#">> \o parts[i]]

\* Response::from_message on each message of each buffer a read can return.
DecodedReads ==
  UNION { { [device |-> d, buffer |-> b,
             results |-> [i \in 1..Len(Messages(b)) |->
                            from_message(Messages(b)[i])]]
            : b \in DeviceBuffers(d) } : d \in Devices }

RECURSIVE Enqueue(_, _)
\* The loop over the messages of one read (lines 137-152): Ok is pushed, Err
\* is logged, a panic unwinds out of the thread.
Enqueue(results, queue) ==
  IF results = << >> THEN [queue |-> queue, panicked |-> FALSE]
  ELSE CASE Head(results).tag = "Ok" ->
              Enqueue(Tail(results), Append(queue, Head(results).val))
         [] Head(results).tag = "Err" -> Enqueue(Tail(results), queue)
         [] Head(results).tag = "Panic" -> [queue |-> queue, panicked |-> TRUE]

\* The read section with a read of zero bytes taken for the end of the
\* connection.
ReadWith_ZeroCloses(outcome) ==
  /\ tcp_pc = "read"
  /\ CASE outcome = "Data" ->
            \E d \in DecodedReads :
              LET r == Enqueue(d.results, response_queue)
              IN /\ d.device = device
                 /\ Len(response_queue) < MaxResQ \/ r.queue = response_queue
                 /\ response_queue' = r.queue
                 /\ tcp_pc' = IF r.panicked THEN "panicked" ELSE "send"
                 /\ last_sent' = IF r.panicked THEN 0 ELSE last_sent
       [] outcome = "WouldBlock" ->
            /\ tcp_pc' = "send"
            /\ UNCHANGED <<response_queue, last_sent>>
       [] outcome \in {"Zero", "Err"} ->
            /\ tcp_pc' = IF running THEN "connect" ELSE "stopped"
            /\ last_sent' = 0
            /\ UNCHANGED response_queue
  /\ UNCHANGED <<request_queue, shared_state, request_id_counter, running,
                 mm_pc, pr_pc, device, codec>>

\* The read section (lines 130-166).
ReadWith(outcome) ==
  /\ tcp_pc = "read"
  /\ CASE outcome = "Data" ->
            \E d \in DecodedReads :
              LET r == Enqueue(d.results, response_queue)
              IN /\ d.device = device
                 /\ Len(response_queue) < MaxResQ \/ r.queue = response_queue
                 /\ response_queue' = r.queue
                 /\ tcp_pc' = IF r.panicked THEN "panicked" ELSE "send"
                 /\ last_sent' = IF r.panicked THEN 0 ELSE last_sent
       [] outcome \in {"Zero", "WouldBlock"} ->
            /\ tcp_pc' = "send"
            /\ UNCHANGED <<response_queue, last_sent>>
       [] outcome = "Err" ->
            /\ tcp_pc' = IF running THEN "connect" ELSE "stopped"
            /\ last_sent' = 0
            /\ UNCHANGED response_queue
  /\ UNCHANGED <<request_queue, shared_state, request_id_counter, running,
                 mm_pc, pr_pc, device, codec>>

\* The read section, whatever the read returns.
ReadSection == \E outcome \in ReadOutcomes : ReadWith(outcome)

TcpRead == ReadSection /\ UNCHANGED <<locks, locals>>

(***************************************************************************)
(* Correlation Engine: TcpClient::message_management_thread                *)
(***************************************************************************)

RECURSIVE FindRequest(_, _, _)
\* req_queue.iter().find(|req| req.get_req_id() == id): its index, 0 if none.
FindRequest(reqs, id, i) ==
  IF i > Len(reqs) THEN 0
  ELSE IF reqs[i].req_id = id THEN i ELSE FindRequest(reqs, id, i + 1)

\* The first loop left out: no response is marked.
MarkOrphans_None(reqs, ress) == ress

\* First loop (lines 208-229): a response with no request is marked.
MarkOrphans(reqs, ress) ==
  [j \in 1..Len(ress) |->
     IF FindRequest(reqs, ress[j].req_id, 1) = 0
       THEN [ress[j] EXCEPT !.marked_as_deleted = TRUE]
       ELSE ress[j]]

\* The timeout test with the threshold one second higher.
TimedOut_Strict(req) ==
  req.sent /\ as_secs(unwrap(req.sent_at)) > TimeoutSecs + 1

\* The timeout test without is_sent: a request that was never sent counts
\* as expired.
TimedOut_Unsent(req) ==
  IF req.sent THEN as_secs(unwrap(req.sent_at)) > TimeoutSecs ELSE TRUE

\* The timeout test of line 234.
TimedOut(req) == req.sent /\ as_secs(unwrap(req.sent_at)) > TimeoutSecs

RECURSIVE ScanResponses_ValidOnly(_, _, _)
\* The inner loop with the checksum test moved into the identifier test: a
\* response whose checksum failed is passed over.
ScanResponses_ValidOnly(req, ress, j) ==
  IF j > Len(ress) THEN 0
  ELSE IF ress[j].marked_as_deleted THEN 0
       ELSE IF req.req_id = ress[j].req_id /\ ress[j].crc_is_valid THEN j
            ELSE ScanResponses_ValidOnly(req, ress, j + 1)

\* The inner loop without its break after a match: the last response with
\* the request's identifier is the one matched.
ScanResponses_Last(req, ress, j) ==
  LET S == { k \in j..Len(ress) :
               ~ress[k].marked_as_deleted /\ ress[k].req_id = req.req_id }
  IN IF S = {} THEN 0 ELSE CHOOSE k \in S : \A n \in S : n <= k

RECURSIVE ScanResponses_AskedOnly(_, _, _)
\* The inner loop with the request's command compared as well: a response
\* is matched only when its payload is of the kind the request asked for.
ScanResponses_AskedOnly(req, ress, j) ==
  IF j > Len(ress) THEN 0
  ELSE IF ress[j].marked_as_deleted THEN 0
       ELSE IF /\ req.req_id = ress[j].req_id
               /\ (req.command = "Inf") = (ress[j].command_data.variant = "Inf")
              THEN j
            ELSE ScanResponses_AskedOnly(req, ress, j + 1)

RECURSIVE ScanResponses(_, _, _)
\* Inner loop (lines 243-271): the index of the response the request is
\* matched with, 0 if the loop ends or breaks without a match.
ScanResponses(req, ress, j) ==
  IF j > Len(ress) THEN 0
  ELSE IF ress[j].marked_as_deleted THEN 0
       ELSE IF req.req_id = ress[j].req_id THEN j
            ELSE ScanResponses(req, ress, j + 1)

\* The setters writing only a category that still has its default.
ApplyCommandData_KeepFirst(state, command_data) ==
  CASE command_data.variant = "Inf" /\ state.inf = INFData_default ->
         [state EXCEPT !.inf = command_data.data]
    [] command_data.variant = "Dat0" /\ state.dat0 = DAT0Data_default ->
         [state EXCEPT !.dat0 = command_data.data]
    [] command_data.variant = "Dat1" /\ state.dat1 = DAT1Data_default ->
         [state EXCEPT !.dat1 = command_data.data]
    [] command_data.variant = "Dat2" /\ state.dat2 = DAT2Data_default ->
         [state EXCEPT !.dat2 = command_data.data]
    [] OTHER -> state

\* The match with an arm for the acknowledgement that clears the record.
ApplyCommandData_AckResets(state, command_data) ==
  CASE command_data.variant = "Inf"  -> [state EXCEPT !.inf = command_data.data]
    [] command_data.variant = "Dat0" -> [state EXCEPT !.dat0 = command_data.data]
    [] command_data.variant = "Dat1" -> [state EXCEPT !.dat1 = command_data.data]
    [] command_data.variant = "Dat2" -> [state EXCEPT !.dat2 = command_data.data]
    [] OTHER -> SharedState_new

\* SharedState::set_inf, set_dat0, set_dat1, set_dat2 under the match of
\* lines 250-264.
ApplyCommandData(state, command_data) ==
  CASE command_data.variant = "Inf"  -> [state EXCEPT !.inf = command_data.data]
    [] command_data.variant = "Dat0" -> [state EXCEPT !.dat0 = command_data.data]
    [] command_data.variant = "Dat1" -> [state EXCEPT !.dat1 = command_data.data]
    [] command_data.variant = "Dat2" -> [state EXCEPT !.dat2 = command_data.data]
    [] OTHER -> state

\* The match without the checksum test.
ApplyResponse_NoCrcCheck(state, res) ==
  ApplyCommandData(state, res.command_data)

\* What a matched response does to the record (lines 248-266).
ApplyResponse(state, res) ==
  IF res.crc_is_valid THEN ApplyCommandData(state, res.command_data) ELSE state

RECURSIVE PassRequests(_, _, _, _, _)
\* Second loop (lines 230-272) from request i on.  events lists what the
\* loop did, in order: it is not program state.
PassRequests(reqs, ress, state, events, i) ==
  IF i > Len(reqs)
    THEN [reqs |-> reqs, ress |-> ress, state |-> state, events |-> events]
  ELSE IF reqs[i].marked_as_deleted
    THEN PassRequests(reqs, ress, state, events, i + 1)
  ELSE
    LET timed  == TimedOut(reqs[i])
        j      == ScanResponses(reqs[i], ress, 1)
        reqs1  == IF timed \/ j # 0
                    THEN [reqs EXCEPT ![i].marked_as_deleted = TRUE] ELSE reqs
        ress1  == IF j # 0
                    THEN [ress EXCEPT ![j].marked_as_deleted = TRUE] ELSE ress
        state1 == IF j # 0 THEN ApplyResponse(state, ress[j]) ELSE state
        ev1    == IF timed THEN <<[kind |-> "timeout", req |-> i]>> ELSE << >>
        ev2    == IF j # 0
                    THEN <<[kind |-> "match", req |-> i, res |-> j,
                            before |-> state, after |-> state1]>>
                    ELSE << >>
    IN PassRequests(reqs1, ress1, state1, events \o ev1 \o ev2, i + 1)

\* One pass under both queue locks (lines 206-274).
MessagePass(reqs, ress, state) ==
  PassRequests(reqs, MarkOrphans(reqs, ress), state, << >>, 1)

\* retain with the test inverted: the marked entries are the ones kept.
Retain_Marked(queue) == SelectSeq(queue, LAMBDA entry : entry.marked_as_deleted)

RECURSIVE Retain(_)
\* VecDeque::retain(|x| !x.is_marked_as_deleted())
Retain(queue) ==
  IF queue = << >> THEN << >>
  ELSE IF Head(queue).marked_as_deleted THEN Retain(Tail(queue))
       ELSE <<Head(queue)>> \o Retain(Tail(queue))

\* Loop top and the pass.
PassSection ==
  /\ mm_pc = "pass"
  /\ IF ~running
       THEN /\ mm_pc' = "stopped"
            /\ UNCHANGED <<request_queue, response_queue, shared_state>>
       ELSE LET r == MessagePass(request_queue, response_queue, shared_state)
            IN /\ request_queue' = r.reqs
               /\ response_queue' = r.ress
               /\ shared_state' = r.state
               /\ mm_pc' = "clean"
  /\ UNCHANGED <<request_id_counter, running, tcp_pc, last_sent, pr_pc,
                 device, codec>>

MMPass == PassSection /\ UNCHANGED <<locks, locals>>

\* clean_queues without its first half: the marked requests stay in the
\* request queue.
clean_queues_ResponsesOnly ==
  /\ mm_pc = "clean"
  /\ response_queue' = Retain(response_queue)
  /\ mm_pc' = "pass"
  /\ UNCHANGED <<request_queue, shared_state, request_id_counter, running,
                 tcp_pc, last_sent, pr_pc, device, codec,
                 locks, locals>>

\* clean_queues (lines 421-436), then the pause.  Its two halves take the
\* two queue locks one after the other; the second commutes with every step
\* another thread can take in between (nothing but this function removes
\* from, and nothing else reads marks of, the response queue), so the two
\* are one step.
clean_queues ==
  /\ mm_pc = "clean"
  /\ request_queue' = Retain(request_queue)
  /\ response_queue' = Retain(response_queue)
  /\ mm_pc' = "pass"
  /\ UNCHANGED <<shared_state, request_id_counter, running, tcp_pc,
                 last_sent, pr_pc, device, codec,
                 locks, locals>>

(***************************************************************************)
(* Poller: TcpClient::periodic_request_thread, and the submit boundary     *)
(***************************************************************************)

\* already_existing_request that starts after the front of the queue.
already_existing_request_SkipFront(command, command_type, params, queue) ==
  \E k \in 2..Len(queue) :
     /\ ~queue[k].marked_as_deleted
     /\ queue[k].command = command
     /\ queue[k].command_type = command_type
     /\ queue[k].params = params

\* already_existing_request that looks at unsent requests only.
already_existing_request_Unsent(command, command_type, params, queue) ==
  \E k \in 1..Len(queue) :
     /\ ~queue[k].marked_as_deleted
     /\ ~queue[k].sent
     /\ queue[k].command = command
     /\ queue[k].command_type = command_type
     /\ queue[k].params = params

\* already_existing_request
already_existing_request(command, command_type, params, queue) ==
  \E k \in 1..Len(queue) :
     /\ ~queue[k].marked_as_deleted
     /\ queue[k].command = command
     /\ queue[k].command_type = command_type
     /\ queue[k].params = params

\* send_request with push_front in place of push_back.
send_request_Front(request, queue) == <<request>> \o queue

\* send_request
send_request(request, queue) == Append(queue, request)

\* The increment without the wrap.
next_id_NoWrap(id) == id + 1

\* *id_lock = (*id_lock + 1) % 100000
next_id(id) == (id + 1) % IdModulus

\* i.to_string() for the page numbers of the loop.
PageParam(i) == <<DecDigits[i + 1]>>

\* One critical section of the counter lock in the Poller (lines 303-321 and
\* 324-347).  Between the check and the push only the other two threads can
\* take the queue lock, and neither appends, so the two are one step.
PollSlot(command, params, next_pc) ==
  /\ IF already_existing_request(command, "Read", params, request_queue)
       THEN UNCHANGED <<request_queue, request_id_counter>>
       ELSE /\ request_id_counter < MaxAlloc \/ ~running
            /\ request_queue' =
                 send_request(Request_new(request_id_counter, command, "Read",
                                          params), request_queue)
            /\ request_id_counter' = next_id(request_id_counter)
  /\ pr_pc' = next_pc
  /\ UNCHANGED <<response_queue, shared_state, running, tcp_pc, last_sent,
                 mm_pc, device, codec,
                 locks, locals>>

\* The loop with while true for its head.
PollInf_NoCheck ==
  /\ pr_pc = "inf"
  /\ PollSlot("Inf", << >>, "dat0")

\* Loop top and the device-info slot.
PollInf ==
  /\ pr_pc = "inf"
  /\ IF ~running
       THEN /\ pr_pc' = "stopped"
            /\ UNCHANGED <<request_queue, response_queue, shared_state,
                           request_id_counter, running, tcp_pc, last_sent,
                           mm_pc, device, codec,
                 locks, locals>>
       ELSE PollSlot("Inf", << >>, "dat0")

\* The cycle with the slot of page 2 left out.
PollDat_TwoPages ==
  \E i \in 0..1 :
    /\ pr_pc = <<"dat0", "dat1">>[i + 1]
    /\ PollSlot("Dat", <<PageParam(i)>>, <<"dat1", "inf">>[i + 1])

\* The slots of the three data pages, then the pause.
PollDat ==
  \E i \in 0..2 :
    /\ pr_pc = <<"dat0", "dat1", "dat2">>[i + 1]
    /\ PollSlot("Dat", <<PageParam(i)>>, <<"dat1", "dat2", "inf">>[i + 1])

\* queue.push_back(new_request) with a request like it left alone.
handle_request_push_Dedup(new_request, queue) ==
  IF already_existing_request(new_request.command, new_request.command_type,
                              new_request.params, queue)
    THEN queue ELSE Append(queue, new_request)

\* queue.push_back(new_request)
handle_request_push(new_request, queue) == Append(queue, new_request)

\* handle_request: one critical section of the counter lock.
Submit ==
  \E in \in SubmitInputs :
    /\ request_id_counter < MaxAlloc
    /\ Cardinality({k \in 1..Len(request_queue) :
                      request_queue[k].command_type = "Write"}) < MaxSubmitted
    /\ request_queue' =
         handle_request_push(Request_new(request_id_counter, "Dat", "Write",
                                         <<to_string(in[1]), in[2]>>),
                             request_queue)
    /\ request_id_counter' = next_id(request_id_counter)
    /\ UNCHANGED <<response_queue, shared_state, running, tcp_pc, last_sent,
                   mm_pc, pr_pc, device, codec,
                 locks, locals>>

\* The Ctrl-C handler and the end of main.
Shutdown ==
  /\ running
  /\ running' = FALSE
  /\ UNCHANGED <<request_queue, response_queue, shared_state,
                 request_id_counter, tcp_pc, last_sent, mm_pc, pr_pc, device, codec,
                 locks, locals>>

\* The clock advances by one step.
Tick ==
  /\ \/ Connected /\ last_sent < MaxGateAge
     \/ \E k \in 1..Len(request_queue) :
          request_queue[k].sent /\ unwrap(request_queue[k].sent_at) < MaxSentAge
  /\ last_sent' = IF Connected /\ last_sent < MaxGateAge
                    THEN Min(last_sent + ClockStep, MaxGateAge) ELSE last_sent
  /\ request_queue' =
       [k \in 1..Len(request_queue) |->
          IF request_queue[k].sent /\ unwrap(request_queue[k].sent_at) < MaxSentAge
            THEN [request_queue[k] EXCEPT
                    !.sent_at = Some(Min(unwrap(@) + ClockStep, MaxSentAge))]
            ELSE request_queue[k]]
  /\ UNCHANGED <<response_queue, shared_state, request_id_counter, running,
                 tcp_pc, mm_pc, pr_pc, device, codec,
                 locks, locals>>

\* The steps of a run in which shutdown is never signalled.
Next ==
  \/ TcpLoopTop
  \/ TcpConnect
  \/ TcpSend
  \/ TcpRead
  \/ MMPass
  \/ clean_queues
  \/ PollInf
  \/ PollDat
  \/ Submit
  \/ Tick

Spec == Init /\ [][Next]_vars

\* The threads, each as the steps of its loop.
ConnectionManager == TcpLoopTop \/ TcpConnect \/ TcpSend \/ TcpRead
CorrelationEngine == MMPass \/ clean_queues
Poller == PollInf \/ PollDat

\* The clock is followed until the first request is on the wire: the send
\* gate opens; the ages of sent requests play no part in these runs.
TickUntilSent ==
  /\ \A k \in 1..Len(request_queue) : ~request_queue[k].sent
  /\ Tick

(***************************************************************************)
(* The codec alone: one request or one device frame taken through          *)
(* build_message, from_message and the loop that enqueues                  *)
(***************************************************************************)

CodecIds == {0, 4242, IdModulus - 1}
CodecParams ==
  { << >>, Ack, TwoFields, InfA, << <<"a", ";", "b">> >>, Page1 }
\* Parameter counts at and around the four the decoder resolves.
CodecCounts == {1, 2, 10, 11, 12, 21, 22, 23, 35, 36, 37}

\* n fields a page parser accepts, the first made unparsable if bad.
Fields(n, bad) == [i \in 1..n |-> IF bad /\ i = 1 THEN <<"x">> ELSE <<"1">>]

\* A request about to be encoded, with how its frame is handed on (the
\* trailing newline kept or stripped), or a frame of the device on the wire.
CodecInputs ==
  { [stage |-> "request", origin |-> "request", strip |-> strip,
     request |-> Request_new(id, command, type, params)] :
      id \in CodecIds, command \in Commands, type \in CommandTypes,
      params \in CodecParams, strip \in BOOLEAN }
  \cup
  { [stage |-> "wire", origin |-> "device", strip |-> FALSE,
     count |-> n, bad |-> bad,
     frame |-> DeviceFrame(1, DAT, <<"R">>, Fields(n, bad), FALSE)] :
      n \in CodecCounts, bad \in BOOLEAN }

CodecInit ==
  /\ Constructed
  /\ device = "silent"
  /\ codec \in CodecInputs
  /\ locks = LocksFree
  /\ locals = NoLocals

\* The frame without its last character.
Stripped(frame) == SubSeq(frame, 1, Len(frame) - 1)

\* Request::build_message on the request.
CodecBuild ==
  /\ codec.stage = "request"
  /\ codec' = [stage |-> "frame", origin |-> "request",
               strip |-> codec.strip, request |-> codec.request,
               frame |-> IF codec.strip
                           THEN Stripped(build_message(codec.request))
                           ELSE build_message(codec.request)]
  /\ UNCHANGED <<request_queue, response_queue, shared_state,
                 request_id_counter, running, tcp_pc, last_sent, mm_pc,
                 pr_pc, device, locks, locals>>

\* Response::from_message on the frame; fields is what its fixed-offset
\* part read.
CodecDecode ==
  /\ codec.stage \in {"frame", "wire"}
  /\ codec' = [codec EXCEPT !.stage = "decoded"]
                @@ [fields |-> parse_frame(codec.frame),
                    result |-> from_message(codec.frame)]
  /\ UNCHANGED <<request_queue, response_queue, shared_state,
                 request_id_counter, running, tcp_pc, last_sent, mm_pc,
                 pr_pc, device, locks, locals>>

\* The loop of the Connection Manager over the one decoded message, on an
\* empty queue.
CodecEnqueue ==
  /\ codec.stage = "decoded"
  /\ codec' = [codec EXCEPT !.stage = "received"]
                @@ [queue |-> Enqueue(<<codec.result>>, << >>).queue]
  /\ UNCHANGED <<request_queue, response_queue, shared_state,
                 request_id_counter, running, tcp_pc, last_sent, mm_pc,
                 pr_pc, device, locks, locals>>

CodecNext ==
  \/ CodecBuild
  \/ CodecDecode
  \/ CodecEnqueue

CodecSpec == CodecInit /\ [][CodecNext]_vars

(***************************************************************************)
(* Properties of the pipeline                                              *)
(***************************************************************************)

\* A step of the Correlation Engine that runs the pass.
PassStep == mm_pc = "pass" /\ mm_pc' = "clean"
\* The step that compacts the queues.
CompactionStep == mm_pc = "clean" /\ mm_pc' = "pass"

Unmarked(entry) == ~entry.marked_as_deleted

\* Response j of the queue has the identifier of no request of the queue.
Orphan(j) ==
  \A i \in 1..Len(request_queue) :
     request_queue[i].req_id # response_queue[j].req_id

\* Between the pass and the compaction every mark stays where it is, and
\* the compaction leaves exactly the unmarked entries of a queue, in order.
MarksKept(queue, queue_after) ==
  mm_pc = "clean" /\ mm_pc' = "clean" =>
    \A k \in 1..Len(queue) :
       queue[k].marked_as_deleted =>
         /\ k <= Len(queue_after)
         /\ queue_after[k].marked_as_deleted
         /\ queue_after[k].req_id = queue[k].req_id

Compacted(queue, queue_after) ==
  CompactionStep => queue_after = SelectSeq(queue, Unmarked)

StateCategories == {"inf", "dat0", "dat1", "dat2"}

StateCategory(variant) ==
  CASE variant = "Inf"  -> "inf"
    [] variant = "Dat0" -> "dat0"
    [] variant = "Dat1" -> "dat1"
    [] variant = "Dat2" -> "dat2"
    [] OTHER -> "none"

\* The new value of a category is the payload of a response of the queue
\* whose checksum validated and whose identifier a request of the queue has.
WrittenFromValidMatch(cat) ==
  \E j \in 1..Len(response_queue) :
     /\ response_queue[j].crc_is_valid
     /\ ~Orphan(j)
     /\ StateCategory(response_queue[j].command_data.variant) = cat
     /\ shared_state'[cat] = response_queue[j].command_data.data

\* C1: the device-state record changes only in a step that is the pass of
\* the Correlation Engine, and every category that changes then holds the
\* payload of a response whose checksum validated and whose identifier is
\* that of a request in the request queue.
C1_StateWrittenOnlyByValidMatch ==
  [][shared_state' # shared_state =>
       /\ PassStep
       /\ \A cat \in StateCategories :
            shared_state'[cat] # shared_state[cat] =>
              WrittenFromValidMatch(cat)]_vars

\* The pass has written the device-info category from a validated response.
C1_Witness ==
  /\ mm_pc = "clean"
  /\ shared_state.inf # INFData_default
  /\ \E j \in 1..Len(response_queue) :
       /\ response_queue[j].marked_as_deleted
       /\ response_queue[j].crc_is_valid
       /\ response_queue[j].command_data.data = shared_state.inf

\* What the pass did with a response whose checksum failed.
InvalidMatchClosed ==
  LET events == MessagePass(request_queue, response_queue,
                            shared_state).events
  IN /\ \A n \in 1..Len(events) :
          (/\ events[n].kind = "match"
           /\ ~response_queue[events[n].res].crc_is_valid) =>
            /\ request_queue'[events[n].req].marked_as_deleted
            /\ response_queue'[events[n].res].marked_as_deleted
            /\ events[n].after = events[n].before
     /\ (/\ response_queue # << >>
         /\ ~response_queue[1].crc_is_valid
         /\ ~Orphan(1)) =>
          /\ response_queue'[1].marked_as_deleted
          /\ \E i \in 1..Len(request_queue) :
               /\ request_queue[i].req_id = response_queue[1].req_id
               /\ request_queue'[i].marked_as_deleted
          /\ Len(response_queue) = 1 => shared_state' = shared_state

\* C2: a request matched by identifier with a response whose checksum is
\* invalid is marked deleted together with the response, that match leaves
\* the four categories of the record as they were, and the compaction of
\* the cycle removes both.
C2_InvalidMatchClosesRequest ==
  [][/\ PassStep => InvalidMatchClosed
     /\ MarksKept(request_queue, request_queue')
     /\ MarksKept(response_queue, response_queue')
     /\ Compacted(request_queue, request_queue')
     /\ Compacted(response_queue, response_queue')]_vars

\* A request and the only response with its identifier wait for the
\* compaction, the checksum of the response failed, and the request is too
\* young to have timed out.
C2_Witness ==
  /\ mm_pc = "clean"
  /\ \E i \in 1..Len(request_queue), j \in 1..Len(response_queue) :
       /\ request_queue[i].req_id = response_queue[j].req_id
       /\ request_queue[i].marked_as_deleted
       /\ response_queue[j].marked_as_deleted
       /\ ~response_queue[j].crc_is_valid
       /\ ~TimedOut(request_queue[i])
       /\ \A j2 \in 1..Len(response_queue) :
            j2 # j => response_queue[j2].req_id # response_queue[j].req_id
  /\ shared_state = SharedState_new

\* What the pass did with the orphans.
OrphansDiscarded ==
  /\ \A j \in 1..Len(response_queue) :
       Orphan(j) => response_queue'[j].marked_as_deleted
  /\ \A i \in 1..Len(request_queue) :
       request_queue'[i] # request_queue[i] =>
         \/ TimedOut(request_queue[i])
         \/ \E j \in 1..Len(response_queue) :
              response_queue[j].req_id = request_queue[i].req_id
  /\ shared_state' # shared_state =>
       \E j \in 1..Len(response_queue) :
          ~Orphan(j) /\ response_queue'[j].marked_as_deleted
  /\ (\A j \in 1..Len(response_queue) : Orphan(j)) =>
       /\ shared_state' = shared_state
       /\ \A i \in 1..Len(request_queue) :
            request_queue'[i] =
              IF TimedOut(request_queue[i])
                THEN [request_queue[i] EXCEPT !.marked_as_deleted = TRUE]
                ELSE request_queue[i]

\* C3: a response whose identifier no request of the queue has is marked
\* deleted by the pass and removed by the compaction of the cycle; whatever
\* the pass changes in the request queue or in the record is owed to a
\* timeout or to a response that has the identifier of a request.
C3_OrphanDiscarded ==
  [][/\ PassStep => OrphansDiscarded
     /\ MarksKept(response_queue, response_queue')
     /\ Compacted(response_queue, response_queue')]_vars

\* A marked response waits for the compaction and no request has its
\* identifier.
C3_Witness ==
  /\ mm_pc = "clean"
  /\ \E j \in 1..Len(response_queue) :
       response_queue[j].marked_as_deleted /\ Orphan(j)

\* C4 as claimed: the pass marks every sent request whose sent-at instant is
\* more than 5 seconds in the past, 5.5 seconds included.
C4_TimeoutOverFiveSeconds ==
  [][PassStep =>
       \A i \in 1..Len(request_queue) :
          (/\ request_queue[i].sent
           /\ unwrap(request_queue[i].sent_at) > TimeoutSecs * TicksPerSec) =>
            request_queue'[i].marked_as_deleted]_vars

\* C4, amended: the pass marks every sent request whose sent-at instant is 6
\* seconds or more in the past (its elapsed whole seconds exceed 5), and the
\* compaction of the cycle removes it.
C4_TimeoutFromSixSeconds ==
  [][/\ PassStep =>
          \A i \in 1..Len(request_queue) :
             (/\ request_queue[i].sent
              /\ unwrap(request_queue[i].sent_at)
                   >= (TimeoutSecs + 1) * TicksPerSec)
               => request_queue'[i].marked_as_deleted
     /\ MarksKept(request_queue, request_queue')
     /\ Compacted(request_queue, request_queue')]_vars

\* A request sent 6 seconds ago that no response answers waits, marked, for
\* the compaction.
C4_Witness ==
  /\ mm_pc = "clean"
  /\ \E i \in 1..Len(request_queue) :
       /\ request_queue[i].marked_as_deleted
       /\ request_queue[i].sent
       /\ unwrap(request_queue[i].sent_at) >= (TimeoutSecs + 1) * TicksPerSec
       /\ \A j \in 1..Len(response_queue) :
            response_queue[j].req_id # request_queue[i].req_id

\* C7: a request that has been put on the wire is the front of the request
\* queue, so no request behind it is on the wire before it is removed.
C7_OnlyFrontOnWire ==
  \A k \in 1..Len(request_queue) :
     (request_queue[k].sent \/ request_queue[k].writes > 0) => k = 1

\* The front has been sent and another request waits behind it.
C7_Witness ==
  /\ Len(request_queue) >= 2
  /\ request_queue[1].sent
  /\ ~request_queue[2].sent

\* C8: no request is written to the socket twice, and the sent flag of a
\* request in the queue is never cleared, whatever the connection does.
C8_NeverRetransmitted ==
  [][/\ \A k \in 1..Len(request_queue') :
          /\ request_queue'[k].writes <= 1
          /\ request_queue'[k].sent <=> request_queue'[k].writes = 1
     /\ ~CompactionStep =>
          \A k \in 1..Len(request_queue) :
             request_queue[k].sent =>
               /\ k <= Len(request_queue')
               /\ request_queue'[k].sent]_vars

\* The connection was made after the front was sent: the send timer is
\* younger than the sent-at instant of the front, which was written once.
C8_Witness ==
  /\ Connected
  /\ request_queue # << >>
  /\ request_queue[1].sent
  /\ request_queue[1].writes = 1
  /\ unwrap(request_queue[1].sent_at) > 0
  /\ last_sent = 0

\* The standing requests of the Poller.
Standing ==
  {<<"Inf", << >> >>} \cup {<<"Dat", <<PageParam(i)>> >> : i \in 0..2}

Pending(standing) ==
  {k \in 1..Len(request_queue) :
     /\ ~request_queue[k].marked_as_deleted
     /\ request_queue[k].command = standing[1]
     /\ request_queue[k].command_type = "Read"
     /\ request_queue[k].params = standing[2]}

\* C9: the request queue holds at most one request not marked deleted for
\* each of the four standing reads.
C9_OneStandingRequestEach ==
  \A standing \in Standing : Cardinality(Pending(standing)) <= 1

\* The device-info read was issued again while the one before it, marked,
\* is still in the queue.
C9_Witness ==
  \E k1, k2 \in 1..Len(request_queue) :
     /\ k1 < k2
     /\ request_queue[k1].command = "Inf"
     /\ request_queue[k2].command = "Inf"
     /\ request_queue[k1].marked_as_deleted
     /\ ~request_queue[k2].marked_as_deleted

\* The slot the Poller is at.
SlotOf(pc) ==
  CASE pc = "inf"  -> <<"Inf", << >> >>
    [] pc = "dat0" -> <<"Dat", <<PageParam(0)>> >>
    [] pc = "dat1" -> <<"Dat", <<PageParam(1)>> >>
    [] pc = "dat2" -> <<"Dat", <<PageParam(2)>> >>

\* C10: a slot of the Poller that finds a request not marked deleted with
\* its command, type and parameters, sent or not and whatever its
\* identifier, enqueues nothing and leaves the counter alone.
C10_NoDuplicatePoll ==
  [][(pr_pc' # pr_pc /\ Pending(SlotOf(pr_pc)) # { }) =>
       /\ request_queue' = request_queue
       /\ request_id_counter' = request_id_counter]_vars

\* The second round of the Poller has passed the device-info slot while the
\* first device-info request, sent, is still pending.
C10_Witness ==
  /\ pr_pc = "dat0"
  /\ \E k \in 1..Len(request_queue) :
       /\ request_queue[k].req_id = 0
       /\ request_queue[k].command = "Inf"
       /\ request_queue[k].sent
       /\ ~request_queue[k].marked_as_deleted
  /\ \E k \in 1..Len(request_queue) :
       /\ request_queue[k].command = "Dat"
       /\ request_queue[k].command_type = "Read"
       /\ request_queue[k].params = <<PageParam(2)>>

(***************************************************************************)
(* Properties of the codec                                                 *)
(***************************************************************************)

Decoded == codec.stage \in {"decoded", "received"}

\* C5 as claimed: the frame of any request, its trailing newline stripped,
\* decodes to a response whose checksum validates and whose command,
\* command-type and parameters are those of the request.
C5_RoundTripStripped ==
  (Decoded /\ codec.origin = "request" /\ codec.strip) =>
    /\ codec.result.tag = "Ok"
    /\ codec.result.val.crc_is_valid
    /\ codec.result.val.command = codec.request.command
    /\ codec.result.val.command_type = codec.request.command_type
    /\ codec.result.val.params = codec.request.params

NoSeparator(params) ==
  \A i \in 1..Len(params) : \A k \in 1..Len(params[i]) : params[i][k] # ";"

\* The requests the amended round trip covers.
RoundTrips(request) ==
  /\ request.command \in {"Inf", "Dat"}
  /\ request.params # << >>
  /\ NoSeparator(request.params)

\* The command a response carries for a request of the generic data command.
PageOf(count) ==
  CASE count = 36 -> "Dat0"
    [] count = 11 -> "Dat1"
    [] count = 22 -> "Dat2"
    [] count = 1  -> "DatReqResponse"
    [] OTHER      -> "Dat"

\* C5, amended: for a request of the device-info or generic data command
\* with a non-empty list of parameters free of ';', the frame of
\* build_message with its newline kept is read back with a checksum that
\* validates and with the identifier, command, command-type and parameters
\* of the request; from_message returns a response carrying them (the
\* generic data command re-specialised by parameter count), or fails in the
\* payload stage with the arity or unimplemented error, and it does return
\* a response for three device-info parameters and for one data parameter.
\* With the newline stripped the checksum read back never validates.
C5_RoundTripWithNewline ==
  (Decoded /\ codec.origin = "request" /\ RoundTrips(codec.request)) =>
    LET request == codec.request
        count   == Len(request.params)
    IN IF codec.strip
         THEN codec.fields.tag = "Ok" => ~codec.fields.val.crc_is_valid
         ELSE /\ codec.fields.tag = "Ok"
              /\ codec.fields.val.crc_is_valid
              /\ codec.fields.val.req_id = request.req_id
              /\ codec.fields.val.command = request.command
              /\ codec.fields.val.command_type = request.command_type
              /\ codec.fields.val.params = request.params
              /\ codec.result.tag = "Ok" =>
                   /\ codec.result.val.crc_is_valid
                   /\ codec.result.val.req_id = request.req_id
                   /\ codec.result.val.command_type = request.command_type
                   /\ codec.result.val.params = request.params
                   /\ codec.result.val.command =
                        IF request.command = "Dat" THEN PageOf(count)
                        ELSE request.command
              /\ codec.result.tag # "Ok" =>
                   codec.result \in {Err(IncorrectResponseStruct),
                                     Err(NotImplemented)}
              /\ (\/ request.command = "Inf" /\ count = 3
                  \/ request.command = "Dat" /\ count = 1) =>
                   codec.result.tag = "Ok"

\* The frame of a write of two parameters, as the HTTP boundary submits it,
\* has been read back with its newline and its checksum validated.
C5_Witness ==
  /\ Decoded
  /\ codec.origin = "request"
  /\ ~codec.strip
  /\ codec.request.command = "Dat"
  /\ codec.request.command_type = "Write"
  /\ codec.request.params = TwoFields
  /\ codec.fields.tag = "Ok"
  /\ codec.fields.val.crc_is_valid
  /\ codec.fields.val.params = TwoFields

\* The frames of the generic data command whose field count is known: a
\* frame of the device, or the frame of a data request with its newline.
GenericData ==
  \/ codec.origin = "device"
  \/ /\ codec.origin = "request"
     /\ ~codec.strip
     /\ codec.request.command = "Dat"
     /\ RoundTrips(codec.request)

FieldCount ==
  IF codec.origin = "device" THEN codec.count ELSE Len(codec.request.params)

\* The fields are ones the parser of the page accepts.
WellFormed ==
  \/ FieldCount = 1
  \/ codec.origin = "device" /\ ~codec.bad
  \/ codec.origin = "request" /\ codec.request.params = Page1

\* C6: a frame of the generic data command is resolved to page 0, page 1,
\* page 2 or the acknowledgement exactly when it has 36, 11, 22 or 1
\* parameters; with any other count from_message fails with the
\* unimplemented error, and the loop of the Connection Manager appends a
\* response to the queue only when from_message returned one.
C6_GenericDataByCount ==
  (codec.stage = "received" /\ GenericData) =>
    IF FieldCount \in {36, 11, 22, 1}
      THEN /\ codec.result # Err(NotImplemented)
           /\ WellFormed => codec.result.tag = "Ok"
           /\ IF codec.result.tag = "Ok"
                THEN /\ codec.result.val.command = PageOf(FieldCount)
                     /\ codec.queue = <<codec.result.val>>
                ELSE /\ codec.result = Err(IncorrectResponseStruct)
                     /\ codec.queue = << >>
      ELSE /\ codec.result = Err(NotImplemented)
           /\ codec.queue = << >>

\* A frame of the device with 37 fields was refused and nothing enqueued.
C6_Witness ==
  /\ codec.stage = "received"
  /\ codec.origin = "device"
  /\ codec.count = 37
  /\ codec.result = Err(NotImplemented)
  /\ codec.queue = << >>

(***************************************************************************)
(* The threads at the grain of their lock acquisitions.  Each acquisition  *)
(* of the counter lock or of a queue lock is a step of its own; what a     *)
(* thread does while it holds its locks, up to the point where it drops    *)
(* them, is the step after.  The lock of the device-state record is taken  *)
(* last and alone, with nothing requested under it, and is not followed.   *)
(* request_queue.read() has one caller, the Poller, so a holder of the     *)
(* request-queue lock is always alone, reader or writer.  Shutdown is not  *)
(* signalled in these runs.                                                *)
(***************************************************************************)

\* The HTTP workers that run handle_request.
Handlers == {"h1", "h2"}
Threads == {"tcp", "engine", "poller"} \cup Handlers

\* Identifiers the counter is short of the wrap when a run starts late.
WrapMargin == 1
\* Identifiers allocated in one run.
MaxIssued == 2

\* pc is the position of the thread between its locks, request_id the local
\* of that name, returned the request_id of the last JSON body.  issued
\* lists the identifiers given to requests, in order: it is bookkeeping.
LocalsInit ==
  [tcp    |-> [pc |-> "run"],
   poller |-> [pc |-> "lock", request_id |-> 0],
   h1     |-> [pc |-> "idle", request_id |-> 0, returned |-> None],
   h2     |-> [pc |-> "idle", request_id |-> 0, returned |-> None],
   issued |-> << >>]

\* Construction, or the state a long run against a device that never
\* answers comes back to: every request timed out and removed, the
\* Connection Manager about to reconnect, the counter close to the wrap.
LockInit ==
  /\ request_queue = << >>
  /\ response_queue = << >>
  /\ shared_state = SharedState_new
  /\ request_id_counter \in {0, IdModulus - WrapMargin}
  /\ running = TRUE
  /\ tcp_pc = "connect"
  /\ last_sent = 0
  /\ mm_pc = "pass"
  /\ pr_pc = "inf"
  /\ device = "info"
  /\ codec = CodecIdle
  /\ locks = LocksFree
  /\ locals = LocalsInit

\* Mutex::lock on the counter that does not wait for the holder.
Available_IdNeverHeld(l) == l = "id" \/ locks[l] = Free

\* Mutex::lock, RwLock::read and RwLock::write return once nobody holds
\* the lock.
Available(l) == locks[l] = Free

Holds(t, l) == locks[l] = t

\* The guards go out of scope.
Release(ls) == [l \in Locks |-> IF l \in ls THEN Free ELSE locks[l]]

MayAllocate == Len(locals.issued) < MaxIssued

NoLock == "none"

\* handle_request with the queue locked before the counter.
HandlerWants_QueueFirst(h) ==
  IF ~Holds(h, "req") THEN "req"
  ELSE IF locals[h].pc = "idle" THEN "id" ELSE NoLock

\* handle_request: the counter (line 604), then the queue (line 622).
HandlerWants(h) ==
  IF locals[h].pc = "idle" THEN "id"
  ELSE IF ~Holds(h, "req") THEN "req" ELSE NoLock

\* The lock each thread wants next, with the Connection Manager taking the
\* lock of the response queue before it reads and decodes.
Wants_DecodeUnderLock(t) ==
  CASE t = "tcp" ->
         IF tcp_pc = "send" /\ running /\ last_sent >= MaxGateAge
            /\ ~Holds(t, "req") THEN "req"
         ELSE IF tcp_pc = "read" /\ ~Holds(t, "res") THEN "res"
         ELSE NoLock
    [] t = "engine" ->
         IF mm_pc = "pass" /\ running
           THEN IF ~Holds(t, "req") THEN "req"
                ELSE IF ~Holds(t, "res") THEN "res" ELSE NoLock
         ELSE IF mm_pc = "clean" /\ ~Holds(t, "req") THEN "req"
         ELSE IF mm_pc = "clean_res" /\ ~Holds(t, "res") THEN "res"
         ELSE NoLock
    [] t = "poller" ->
         IF locals.poller.pc = "lock"
           THEN IF (pr_pc = "inf" => running) /\ pr_pc # "stopped"
                  THEN "id" ELSE NoLock
         ELSE IF ~Holds(t, "req") THEN "req" ELSE NoLock
    [] OTHER -> HandlerWants(t)

\* The lock the thread asks for next, if its next statement is a lock call.
Wants(t) ==
  CASE t = "tcp" ->
         IF tcp_pc = "send" /\ running /\ last_sent >= MaxGateAge
            /\ ~Holds(t, "req") THEN "req"
         ELSE IF tcp_pc = "read" /\ locals.tcp.pc = "deliver"
                 /\ ~Holds(t, "res") THEN "res"
         ELSE NoLock
    [] t = "engine" ->
         IF mm_pc = "pass" /\ running
           THEN IF ~Holds(t, "req") THEN "req"
                ELSE IF ~Holds(t, "res") THEN "res" ELSE NoLock
         ELSE IF mm_pc = "clean" /\ ~Holds(t, "req") THEN "req"
         ELSE IF mm_pc = "clean_res" /\ ~Holds(t, "res") THEN "res"
         ELSE NoLock
    [] t = "poller" ->
         IF locals.poller.pc = "lock"
           THEN IF (pr_pc = "inf" => running) /\ pr_pc # "stopped"
                  THEN "id" ELSE NoLock
         ELSE IF ~Holds(t, "req") THEN "req" ELSE NoLock
    [] OTHER -> HandlerWants(t)

\* The bound of the exploration stops the thread before this lock call.
Cut(t) == Wants(t) = "id" /\ ~MayAllocate

\* A lock call returns.  let request_id = *id_lock follows the lock of the
\* counter at once.
Acquire ==
  \E t \in Threads :
    LET l == Wants(t)
    IN /\ l # NoLock
       /\ ~Cut(t)
       /\ Available(l)
       /\ locks' = [locks EXCEPT ![l] = t]
       /\ locals' = IF l = "id"
                      THEN [locals EXCEPT
                              ![t].request_id = request_id_counter,
                              ![t].pc = IF t = "poller" THEN "check" ELSE "push"]
                      ELSE locals
       /\ UNCHANGED <<request_queue, response_queue, shared_state,
                      request_id_counter, running, tcp_pc, last_sent, mm_pc,
                      pr_pc, device, codec>>

\* The send section, its lock dropped where the section ends, continues or
\* breaks.
LockedSend ==
  /\ Wants("tcp") = NoLock
  /\ locals.tcp.pc = "run"
  /\ SendSection
  /\ locks' = IF Holds("tcp", "req") THEN Release({"req"}) ELSE locks
  /\ UNCHANGED locals

\* stream.read and from_message, both outside the locks: either nothing is
\* to be enqueued, or a response was decoded (a read of this device holds
\* one frame) and the lock of the response queue comes next.
LockedRead ==
  /\ locals.tcp.pc = "run"
  /\ \/ /\ ReadSection
        /\ response_queue' = response_queue
        /\ UNCHANGED <<locks, locals>>
     \/ /\ tcp_pc = "read"
        /\ Len(response_queue) < MaxResQ
        /\ \E d \in DecodedReads :
             /\ d.device = device
             /\ \E i \in 1..Len(d.results) : d.results[i].tag = "Ok"
        /\ locals' = [locals EXCEPT !.tcp.pc = "deliver"]
        /\ UNCHANGED <<request_queue, response_queue, shared_state,
                       request_id_counter, running, tcp_pc, last_sent, mm_pc,
                       pr_pc, device, codec, locks>>

\* push_back under the lock of the response queue (lines 141-143).
LockedDeliver ==
  /\ locals.tcp.pc = "deliver"
  /\ Holds("tcp", "res")
  /\ ReadSection
  /\ response_queue' # response_queue
  /\ locks' = Release({"res"})
  /\ locals' = [locals EXCEPT !.tcp.pc = "run"]

\* The pass under both queue locks.
LockedPass ==
  /\ Wants("engine") = NoLock
  /\ PassSection
  /\ locks' = IF Holds("engine", "req") THEN Release({"req", "res"}) ELSE locks
  /\ UNCHANGED locals

\* First half of clean_queues.
LockedCleanRequests ==
  /\ mm_pc = "clean"
  /\ Holds("engine", "req")
  /\ request_queue' = Retain(request_queue)
  /\ mm_pc' = "clean_res"
  /\ locks' = Release({"req"})
  /\ UNCHANGED <<response_queue, shared_state, request_id_counter, running,
                 tcp_pc, last_sent, pr_pc, device, codec, locals>>

\* Second half of clean_queues, then the pause.
LockedCleanResponses ==
  /\ mm_pc = "clean_res"
  /\ Holds("engine", "res")
  /\ response_queue' = Retain(response_queue)
  /\ mm_pc' = "pass"
  /\ locks' = Release({"res"})
  /\ UNCHANGED <<request_queue, shared_state, request_id_counter, running,
                 tcp_pc, last_sent, pr_pc, device, codec, locals>>

\* The slot after this one; the pause follows the last.
NextSlot(pc) ==
  CASE pc = "inf"  -> "dat0"
    [] pc = "dat0" -> "dat1"
    [] pc = "dat1" -> "dat2"
    [] pc = "dat2" -> "inf"

\* already_existing_request under the read lock; when the request exists
\* the slot ends and the guard of the counter is dropped.
LockedPollCheck ==
  /\ locals.poller.pc = "check"
  /\ Holds("poller", "req")
  /\ IF already_existing_request(SlotOf(pr_pc)[1], "Read", SlotOf(pr_pc)[2],
                                 request_queue)
       THEN /\ pr_pc' = NextSlot(pr_pc)
            /\ locals' = [locals EXCEPT !.poller.pc = "lock"]
            /\ locks' = Release({"req", "id"})
       ELSE /\ locals' = [locals EXCEPT !.poller.pc = "push"]
            /\ locks' = Release({"req"})
            /\ UNCHANGED pr_pc
  /\ UNCHANGED <<request_queue, response_queue, shared_state,
                 request_id_counter, running, tcp_pc, last_sent, mm_pc,
                 device, codec>>

\* send_request under the write lock, then the increment; the slot ends.
LockedPollPush ==
  /\ locals.poller.pc = "push"
  /\ Holds("poller", "req")
  /\ request_queue' =
       send_request(Request_new(locals.poller.request_id, SlotOf(pr_pc)[1],
                                "Read", SlotOf(pr_pc)[2]), request_queue)
  /\ request_id_counter' = next_id(request_id_counter)
  /\ pr_pc' = NextSlot(pr_pc)
  /\ locals' = [locals EXCEPT
                  !.poller.pc = "lock",
                  !.issued = Append(@, locals.poller.request_id)]
  /\ locks' = Release({"req", "id"})
  /\ UNCHANGED <<response_queue, shared_state, running, tcp_pc, last_sent,
                 mm_pc, device, codec>>

\* handle_request from the write lock of the queue on: the push, the
\* increment, the JSON body.
LockedSubmit ==
  \E h \in Handlers, in \in SubmitInputs :
    /\ locals[h].pc = "push"
    /\ Holds(h, "req")
    /\ request_queue' =
         handle_request_push(Request_new(locals[h].request_id, "Dat", "Write",
                                         <<to_string(in[1]), in[2]>>),
                             request_queue)
    /\ request_id_counter' = next_id(request_id_counter)
    /\ locals' = [locals EXCEPT
                    ![h].pc = "idle",
                    ![h].returned = Some(locals[h].request_id),
                    !.issued = Append(@, locals[h].request_id)]
    /\ locks' = Release({"req", "id"})
    /\ UNCHANGED <<response_queue, shared_state, running, tcp_pc, last_sent,
                   mm_pc, pr_pc, device, codec>>

LockNext ==
  \/ Acquire
  \/ TcpLoopTop
  \/ TcpConnect
  \/ LockedSend
  \/ LockedRead
  \/ LockedDeliver
  \/ LockedPass
  \/ LockedCleanRequests
  \/ LockedCleanResponses
  \/ LockedPollCheck
  \/ LockedPollPush
  \/ LockedSubmit
  \/ TickUntilSent

LockSpec == LockInit /\ [][LockNext]_vars

(***************************************************************************)
(* Claims on the identifier counter, the submit boundary and the locks     *)
(***************************************************************************)

\* A step in which a request is appended to the request queue.
Allocation == Len(request_queue') = Len(request_queue) + 1

Newest(queue) == queue[Len(queue)]

\* C11: the identifier counter starts at 0 (a run taken up late starts
\* WrapMargin short of the wrap) and stays in [0, 100000) in every
\* reachable state; every allocation, by the Poller or by an external
\* submit, hands out the current value and replaces it with
\* (value + 1) mod 100000, so the value after 99999 is 0; and no other step
\* changes the counter.
C11_CounterWrapsAt100000 ==
  /\ request_id_counter # 0 => request_id_counter = IdModulus - WrapMargin
  /\ [](request_id_counter \in 0..(IdModulus - 1))
  /\ [][ IF Allocation
           THEN /\ Newest(request_queue').req_id = request_id_counter
                /\ request_id_counter' =
                     IF request_id_counter = IdModulus - 1
                       THEN 0 ELSE request_id_counter + 1
           ELSE request_id_counter' = request_id_counter ]_vars

\* The identifier 99999 was handed out and the counter stands at 0.
C11_Witness ==
  /\ request_id_counter = 0
  /\ request_queue # << >>
  /\ Newest(request_queue).req_id = IdModulus - 1

\* C12: across every interleaving of Poller allocations and concurrent
\* external submits, two requests never receive the same identifier unless
\* at least 100000 allocations lie between them: the counter is read, the
\* request enqueued and the counter incremented inside one critical section
\* of the counter lock, so that whoever holds the lock has read the value
\* the counter still has.
C12_IdentifiersDistinct ==
  /\ \A i, j \in 1..Len(locals.issued) :
        (i < j /\ j - i < IdModulus) => locals.issued[i] # locals.issued[j]
  /\ \A t \in {"poller"} \cup Handlers :
        Holds(t, "id") => locals[t].request_id = request_id_counter
  /\ \A i, j \in 1..Len(request_queue) :
        i # j => request_queue[i].req_id # request_queue[j].req_id

\* A request of the Poller and a submitted one are in the queue, and a
\* second submitter is at the counter lock.
C12_Witness ==
  /\ Len(locals.issued) = 2
  /\ \E i, j \in 1..Len(request_queue) :
        /\ request_queue[i].command_type = "Read"
        /\ request_queue[j].command_type = "Write"
        /\ request_queue[i].req_id # request_queue[j].req_id
  /\ \E h \in Handlers : Wants(h) = "id"

\* The worker returns from handle_request in this step.
Submits(h) == locals[h].pc = "push" /\ locals'[h].pc = "idle"

\* C13: each external submit appends exactly one new request (unsent, not
\* deleted, with the given command, type and parameters) at the tail of the
\* request queue, gives it the counter's current value as identifier,
\* advances the counter by one and returns that same identifier; no dedup
\* is applied: the request is appended whatever the queue holds.
C13_SubmitAppendsOne ==
  [][ \A h \in Handlers :
        Submits(h) =>
          /\ Len(request_queue') = Len(request_queue) + 1
          /\ SubSeq(request_queue', 1, Len(request_queue)) = request_queue
          /\ \E in \in SubmitInputs :
               Newest(request_queue') =
                 [req_id |-> request_id_counter, command |-> "Dat",
                  command_type |-> "Write",
                  params |-> <<to_string(in[1]), in[2]>>,
                  sent |-> FALSE, sent_at |-> None,
                  marked_as_deleted |-> FALSE, writes |-> 0]
          /\ request_id_counter' = (request_id_counter + 1) % IdModulus
          /\ locals'[h].returned = Some(request_id_counter) ]_vars

\* Two identical submits have left two requests with different identifiers
\* in the queue, each identifier returned to its submitter.
C13_Witness ==
  \E i, j \in 1..Len(request_queue) :
     /\ i < j
     /\ request_queue[i].command_type = "Write"
     /\ request_queue[j].command_type = "Write"
     /\ request_queue[i].params = request_queue[j].params
     /\ request_queue[i].req_id # request_queue[j].req_id
     /\ {locals.h1.returned, locals.h2.returned} =
          {Some(request_queue[i].req_id), Some(request_queue[j].req_id)}

\* The thread has reached a lock call and somebody holds the lock.
Blocked(t) == Wants(t) # NoLock /\ ~Cut(t) /\ ~Available(Wants(t))

\* Threads each of which waits for a lock another of them holds.
CircularWait(S) ==
  /\ S # { }
  /\ \A t \in S : Blocked(t) /\ locks[Wants(t)] \in S

\* The thread becomes the holder of the lock in this step.
Acquires(t, l) == locks'[l] = t /\ locks[l] # t

\* C15: no thread acquires the request-queue lock while holding the
\* response-queue lock, and no thread acquires the identifier-counter lock
\* while holding a queue lock; under every interleaving of Connection
\* Manager, Correlation Engine, Poller and external submitters no state is
\* reachable in which threads wait forever on each other's locks.
C15_LockOrderNoDeadlock ==
  /\ [][ \A t \in Threads :
           /\ Acquires(t, "req") => ~Holds(t, "res")
           /\ Acquires(t, "id") => ~Holds(t, "req") /\ ~Holds(t, "res") ]_vars
  /\ [](\A S \in SUBSET Threads : ~CircularWait(S))

\* The Correlation Engine holds both queue locks, the Connection Manager
\* and the Poller, who holds the counter lock, wait for the request queue,
\* and a submitter waits for the counter.
C15_Witness ==
  /\ Holds("engine", "req")
  /\ Holds("engine", "res")
  /\ Blocked("tcp")
  /\ Holds("poller", "id")
  /\ Blocked("poller")
  /\ \E h \in Handlers : Blocked(h)

(***************************************************************************)
(* A device whose frames arrive cut short                                  *)
(***************************************************************************)

TruncatedInit ==
  /\ Constructed
  /\ device = "truncated"
  /\ codec = CodecIdle
  /\ locks = LocksFree
  /\ locals = NoLocals

TruncatedSpec == TruncatedInit /\ [][Next]_vars

\* C14: for every inbound segment handed to the codec, malformed and
\* truncated ones included, a decode failure drops only that segment:
\* nothing is appended to the response queue, and the Connection Manager
\* stays connected and goes on to its next send section (a transport error
\* of the read itself takes it to reconnect, or to the end at shutdown).
C14_DecodeFailureDropsSegment ==
  [][ tcp_pc = "read" =>
        /\ tcp_pc' \in {"read", "send", "connect", "stopped"}
        /\ device = "truncated" => response_queue' = response_queue ]_vars

(***************************************************************************)
(* Shutdown: the flag is cleared at some point of a run against a device   *)
(* that never answers                                                      *)
(***************************************************************************)

ShutdownInit ==
  /\ Constructed
  /\ device = "silent"
  /\ codec = CodecIdle
  /\ locks = LocksFree
  /\ locals = NoLocals

ShutdownNext ==
  \/ ConnectionManager
  \/ CorrelationEngine
  \/ Poller
  \/ Tick
  \/ Shutdown

\* Each thread is scheduled again and again, and its lock acquisitions,
\* sleeps, connect attempts and non-blocking socket calls return.
ShutdownSpec ==
  /\ ShutdownInit
  /\ [][ShutdownNext]_vars
  /\ WF_vars(ConnectionManager)
  /\ WF_vars(CorrelationEngine)
  /\ WF_vars(Poller)

AllStopped == tcp_pc = "stopped" /\ mm_pc = "stopped" /\ pr_pc = "stopped"

\* C16: after the shutdown flag is set, the Connection Manager, the
\* Correlation Engine and the Poller each eventually leave their loops and
\* terminate, whatever state they are in: disconnected and retrying,
\* connected with a write that keeps would-blocking, or mid-cycle.
C16_ThreadsTerminate == ~running ~> AllStopped

\* The threads have ended after a shutdown that found a request on the wire
\* and unanswered.
C16_Witness ==
  /\ ~running
  /\ AllStopped
  /\ \E k \in 1..Len(request_queue) : request_queue[k].sent

(***************************************************************************)
(* A device that answers with every kind of record                         *)
(***************************************************************************)

RecordsInit ==
  /\ Constructed
  /\ device = "records"
  /\ codec = CodecIdle
  /\ locks = LocksFree
  /\ locals = NoLocals

\* The three threads, nothing submitted; the clock is followed until the
\* first request is on the wire.
RecordsNext ==
  \/ ConnectionManager
  \/ CorrelationEngine
  \/ Poller
  \/ TickUntilSent

RecordsSpec == RecordsInit /\ [][RecordsNext]_vars

\* What the pass of this step does, in order.
PassEvents == MessagePass(request_queue, response_queue, shared_state).events

\* The matches of the pass with a response whose checksum validated.
ValidMatches ==
  SelectSeq(PassEvents,
            LAMBDA e : e.kind = "match" /\ response_queue[e.res].crc_is_valid)

\* C17: applying a checksum-valid matched response of category X (info,
\* page 0, page 1 or page 2) replaces category X of the device-state record
\* by that response's whole payload and leaves the other three categories
\* unchanged; a matched acknowledgement-only response changes no category.
\* The record goes through the applications of a pass one after the other.
C17_CategoryReplacedWholesale ==
  [][ PassStep =>
        /\ \A n \in 1..Len(ValidMatches) :
             LET e   == ValidMatches[n]
                 res == response_queue[e.res]
                 cat == StateCategory(res.command_data.variant)
             IN /\ \A c \in StateCategories :
                     e.after[c] = IF c = cat THEN res.command_data.data
                                  ELSE e.before[c]
                /\ e.before = IF n = 1 THEN shared_state
                              ELSE ValidMatches[n - 1].after
        /\ shared_state' = IF ValidMatches = << >> THEN shared_state
                           ELSE ValidMatches[Len(ValidMatches)].after ]_vars

\* A pass has replaced page 2 by a response's payload, with page 0 as an
\* earlier pass left it and the other two categories at their defaults.
C17_Witness ==
  /\ mm_pc = "clean"
  /\ shared_state.dat0 # DAT0Data_default
  /\ shared_state.inf = INFData_default
  /\ shared_state.dat1 = DAT1Data_default
  /\ \E j \in 1..Len(response_queue) :
       /\ response_queue[j].marked_as_deleted
       /\ response_queue[j].crc_is_valid
       /\ response_queue[j].command_data.variant = "Dat2"
       /\ shared_state.dat2 = response_queue[j].command_data.data
       /\ shared_state.dat2 # DAT2Data_default

\* get_inf, get_dat0, get_dat1, get_dat2 of the HTTP boundary: under the
\* read lock, a clone of the category.
state_read(cat) == shared_state[cat]

\* The payloads the pass of this step applies to the category, in order.
Applied(cat) ==
  SelectSeq(ValidMatches,
            LAMBDA e : StateCategory(response_queue[e.res].command_data.variant)
                         = cat)

\* C18: after any sequence of operations, each category of the shared
\* device-state record, and therefore of the copy a state read returns,
\* equals the payload of the most recently applied checksum-valid matched
\* response of that category, or the default record if no response of that
\* category has been applied: a read returns the default at the start, the
\* payload applied last after a pass that applies to the category, and what
\* it returned before after every other step.
C18_ReadReturnsLastApplied ==
  /\ \A cat \in StateCategories : state_read(cat) = SharedState_new[cat]
  /\ [][ \A cat \in StateCategories :
           state_read(cat)' =
             IF PassStep /\ Applied(cat) # << >>
               THEN LET e == Applied(cat)[Len(Applied(cat))]
                    IN response_queue[e.res].command_data.data
               ELSE state_read(cat) ]_vars

\* Request 1 was answered with device info in an earlier pass (it has left
\* the queue, and nothing else was written); this pass has applied the
\* device info that answers request 0, which is what a read now returns.
C18_Witness ==
  /\ mm_pc = "clean"
  /\ state_read("dat0") = DAT0Data_default
  /\ state_read("dat1") = DAT1Data_default
  /\ state_read("dat2") = DAT2Data_default
  /\ \A k \in 1..Len(request_queue) : request_queue[k].req_id # 1
  /\ \E k \in 1..Len(request_queue) : request_queue[k].req_id = 2
  /\ \E j \in 1..Len(response_queue) :
       /\ response_queue[j].req_id = 0
       /\ response_queue[j].marked_as_deleted
       /\ response_queue[j].command_data.variant = "Inf"
       /\ state_read("inf") = response_queue[j].command_data.data

(***************************************************************************)
(* Page 0 decoded for every device-type value                              *)
(***************************************************************************)

\* The values of the device-type field: every u16.
DeviceTypes == 0..U16Max

FacetInit ==
  /\ Constructed
  /\ device = "silent"
  /\ codec \in {[stage |-> "raw", device_type |-> v] : v \in DeviceTypes}
  /\ locks = LocksFree
  /\ locals = NoLocals

\* DAT0Data::from_slice on a page-0 payload whose fifth field is the value.
FacetDecode ==
  /\ codec.stage = "raw"
  /\ codec' = [stage |-> "decoded", device_type |-> codec.device_type,
               result |-> DAT0Data_from_slice(
                            [Page0 EXCEPT ![5] = to_string(codec.device_type)])]
  /\ UNCHANGED <<request_queue, response_queue, shared_state,
                 request_id_counter, running, tcp_pc, last_sent, mm_pc,
                 pr_pc, device, locks, locals>>

FacetSpec == FacetInit /\ [][FacetDecode]_vars

\* C19: for every raw device-type value v in 0..65535, page-0 decoding
\* yields temp_room1_enabled = bit 0 of v, temp_water_enabled = bit 1,
\* fan_number = (v div 4) mod 4, pump_enabled = bit 4,
\* domestic_hot_water_enabled = bit 5, boiler_enabled = bit 6,
\* temp_room3_enabled = bit 7 and temp_room2_enabled = bit 8; in particular
\* v = 499 gives all seven flags true and fan_number = 0.
C19_DeviceTypeFacets ==
  codec.stage = "decoded" =>
    LET v == codec.device_type
        d == codec.result.val
    IN /\ codec.result.tag = "Ok"
       /\ d.index_stove_type = v
       /\ d.temp_room1_enabled = (v % 2 = 1)
       /\ d.temp_water_enabled = ((v \div 2) % 2 = 1)
       /\ d.fan_number = (v \div 4) % 4
       /\ d.pump_enabled = ((v \div 16) % 2 = 1)
       /\ d.domestic_hot_water_enabled = ((v \div 32) % 2 = 1)
       /\ d.boiler_enabled = ((v \div 64) % 2 = 1)
       /\ d.temp_room3_enabled = ((v \div 128) % 2 = 1)
       /\ d.temp_room2_enabled = ((v \div 256) % 2 = 1)
       /\ v = 499 =>
            /\ d.temp_room1_enabled /\ d.temp_water_enabled /\ d.pump_enabled
            /\ d.domestic_hot_water_enabled /\ d.boiler_enabled
            /\ d.temp_room3_enabled /\ d.temp_room2_enabled
            /\ d.fan_number = 0

\* The value 499 has been decoded: boiler and pump enabled, no fan.
C19_Witness ==
  /\ codec.stage = "decoded"
  /\ codec.device_type = 499
  /\ codec.result.tag = "Ok"
  /\ codec.result.val.boiler_enabled
  /\ codec.result.val.pump_enabled
  /\ codec.result.val.fan_number = 0

(***************************************************************************)
(* What a state read exposes: the JSON of the record's numbers             *)
(***************************************************************************)

\* A number of the JSON body, to one decimal place.
Decimal(negative, units, tenths) ==
  [negative |-> negative, units |-> units, tenths |-> tenths]

Magnitude(value) == IF value < 0 THEN 0 - value ELSE value

\* serialize_i16_as_f32: (*value as f32) / 10.0
serialize_i16_as_f32(value) ==
  Decimal(value < 0, Magnitude(value) \div 10, Magnitude(value) % 10)

\* The derived Serialize of an i16 member: the integer itself.
serialize_i16(value) == Decimal(value < 0, Magnitude(value), 0)

\* The members that carry #[serde(serialize_with = "serialize_i16_as_f32")].
SerializeWithF32(cat) ==
  IF cat = "dat0"
    THEN {"index_ambient_t1", "index_ambient_t1_set",
          "index_ambient_t1_set_min", "index_ambient_t1_set_max",
          "index_ambient_t2", "index_ambient_t2_set",
          "index_ambient_t2_set_min", "index_ambient_t2_set_max",
          "index_water", "index_water_set", "index_water_set_min",
          "index_water_set_max", "index_smoke_t"}
    ELSE { }

MembersOf(cat) ==
  CASE cat = "dat0" -> DAT0Members
    [] cat = "dat1" -> DAT1Members
    [] cat = "dat2" -> DAT2Members

\* The signed members of a page: its temperatures, and the page number of
\* pages 1 and 2.
SignedMembers(cat) ==
  {MembersOf(cat)[i][1] :
     i \in {k \in 1..Len(MembersOf(cat)) : MembersOf(cat)[k][2] = "i16"}}

\* web::Json(json!(clone)) of get_dat0, get_dat1, get_dat2, as far as the
\* signed members go.
to_json(cat, data) ==
  [n \in SignedMembers(cat) |->
     IF n \in SerializeWithF32(cat) THEN serialize_i16_as_f32(data[n])
     ELSE serialize_i16(data[n])]

Pages == {"dat0", "dat1", "dat2"}

\* The raw thermal measurements of a page.
Temperatures(cat) == SignedMembers(cat) \ {"index_page"}

\* C20: every raw thermal measurement held in the device-state record, the
\* temperature fields of page 0, page 1 and page 2 alike, is exposed to
\* readers as the signed raw value divided by 10 (raw 370 as 37.0, raw -15
\* as -1.5).
C20_TemperaturesInDegrees ==
  \A cat \in Pages : \A n \in Temperatures(cat) :
     LET raw     == state_read(cat)[n]
         exposed == to_json(cat, state_read(cat))[n]
     IN /\ exposed.negative = (raw < 0)
        /\ 10 * exposed.units + exposed.tenths = Magnitude(raw)
        /\ exposed.tenths \in 0..9
        /\ raw = 370 => exposed = Decimal(FALSE, 37, 0)
        /\ raw = 0 - 15 => exposed = Decimal(TRUE, 1, 5)

(***************************************************************************)
(* A timed-out request and the responses of the same pass                  *)
(***************************************************************************)

\* The requests a pass finds timed out: unmarked when the pass starts, sent
\* more than five whole seconds ago (tcp_client.rs lines 234-242).
FoundTimedOut(i) ==
  Unmarked(request_queue[i]) /\ TimedOut(request_queue[i])

\* The checksum-valid responses that carry request i's identifier and are
\* unmarked when the pass starts.
ValidAnswers(i) ==
  { j \in 1..Len(response_queue) :
      /\ Unmarked(response_queue[j])
      /\ response_queue[j].crc_is_valid
      /\ response_queue[j].req_id = request_queue[i].req_id }

\* C21: in a pass that finds a sent request timed out, a checksum-valid
\* response with the same identifier that is in the response queue is left
\* alone: it stays unmarked, and when it is the only response of the pass
\* the device-state record is not written.
C21_TimedOutRequestNotScanned ==
  [][PassStep =>
       \A i \in 1..Len(request_queue) :
         FoundTimedOut(i) =>
           \A j \in ValidAnswers(i) :
             /\ Unmarked(response_queue'[j])
             /\ Len(response_queue) = 1 => shared_state' = shared_state]_vars

(***************************************************************************)
(* The scan of one request over a response queue with marked entries       *)
(***************************************************************************)

\* A device that answers page requests and can deliver two frames in one
\* read.
PagesInit ==
  /\ Constructed
  /\ device = "pages"
  /\ codec = CodecIdle
  /\ locks = LocksFree
  /\ locals = NoLocals

PagesSpec == PagesInit /\ [][RecordsNext]_vars

\* The responses that carry request i's identifier and are unmarked when the
\* pass starts; identifiers are distinct, so no other request consumes them
\* and the first loop does not mark them.
Answers(i) ==
  { j \in 1..Len(response_queue) :
      /\ Unmarked(response_queue[j])
      /\ response_queue[j].req_id = request_queue[i].req_id }

First(S) == CHOOSE j \in S : \A k \in S : j <= k

\* C22: a pass matches every unmarked request that is not timed out and has
\* an unmarked response with its identifier in the queue with the first such
\* response, whatever stands before that response in the queue.
C22_MatchedBehindMarkedResponses ==
  [][PassStep =>
       \A i \in 1..Len(request_queue) :
         ( /\ Unmarked(request_queue[i])
           /\ ~TimedOut(request_queue[i])
           /\ Answers(i) # {} )
         => /\ request_queue'[i].marked_as_deleted
            /\ response_queue'[First(Answers(i))].marked_as_deleted]_vars

(***************************************************************************)
(* The life of a transmitted request                                       *)
(***************************************************************************)

\* The pipeline against a device that never answers, on a connection that
\* may be lost at any time; nothing is submitted.
EvictionNext ==
  \/ ConnectionManager
  \/ CorrelationEngine
  \/ Poller
  \/ Tick

\* The Correlation Engine is scheduled again and again and time passes;
\* nothing is assumed of the Connection Manager, the Poller or the device.
EvictionSpec ==
  /\ ShutdownInit
  /\ [][EvictionNext]_vars
  /\ WF_vars(CorrelationEngine)
  /\ WF_vars(Tick)

\* The queue holds a request with this identifier.
Has(queue, id) == \E k \in 1..Len(queue) : queue[k].req_id = id

InQueue(id) == Has(request_queue, id)

\* The identifiers of the requests of a queue that are transmitted.
SentIdsOf(queue) ==
  { queue[k].req_id : k \in { n \in 1..Len(queue) : queue[n].sent } }

SentIds == SentIdsOf(request_queue)

\* C23: every transmitted request eventually leaves the request queue while
\* the Correlation Engine runs, whether or not the device answers and
\* whether or not the connection survives: the queue is again and again
\* without a transmitted request, and a transmitted request stays
\* transmitted until it leaves.  Whatever enters the request queue is a
\* new, unsent request under the next fresh identifier, never a request
\* that was there before.
C23_TransmittedEventuallyRemoved ==
  /\ (SentIds # {}) ~> (SentIds = {})
  /\ [][\A id \in SentIds :
          id \in SentIdsOf(request_queue') \/ ~Has(request_queue', id)]_vars
  /\ [][\A k \in 1..Len(request_queue') :
          LET id == request_queue'[k].req_id
          IN ~InQueue(id) => /\ id = request_id_counter
                             /\ request_id_counter' = next_id(id)
                             /\ ~request_queue'[k].sent]_vars

\* A transmitted request is about to be removed on timeout after the
\* connection was lost: the pass has marked it, it was sent once and is
\* older than the timeout, and the Connection Manager is disconnected.
C23_Witness ==
  /\ mm_pc = "clean"
  /\ tcp_pc = "connect"
  /\ \E k \in 1..Len(request_queue) :
       /\ request_queue[k].marked_as_deleted
       /\ TimedOut(request_queue[k])

(***************************************************************************)
(* The Poller restores its standing requests                               *)
(***************************************************************************)

\* The Poller thread is scheduled again and again: its sleeps end and its
\* lock acquisitions return.  Shutdown is never signalled; nothing is
\* assumed of the other threads, the device or the clock.
PollerSpec ==
  /\ ShutdownInit
  /\ [][EvictionNext]_vars
  /\ WF_vars(Poller)

\* The unmarked requests of a queue for one standing read.
PendingIn(queue, standing) ==
  {k \in 1..Len(queue) :
     /\ ~queue[k].marked_as_deleted
     /\ queue[k].command = standing[1]
     /\ queue[k].command_type = "Read"
     /\ queue[k].params = standing[2]}

\* The identifiers of the explored run are used up.
Exhausted == request_id_counter >= MaxAlloc

\* C24: whenever the request queue holds no unmarked Read request for one of
\* the four standing reads (device info, data pages 0, 1, 2), the Poller
\* eventually enqueues one, for as long as the run has identifiers left;
\* the request that fills the gap is appended last and carries the
\* identifier the counter held, and the counter moves on.
C24_PollerRestoresStanding ==
  /\ \A standing \in Standing :
       (Pending(standing) = {}) ~> (Pending(standing) # {} \/ Exhausted)
  /\ [][\A standing \in Standing :
          (Pending(standing) = {} /\ PendingIn(request_queue', standing) # {})
          => /\ PendingIn(request_queue', standing) = {Len(request_queue')}
             /\ Newest(request_queue').req_id = request_id_counter
             /\ request_id_counter' = next_id(request_id_counter)]_vars

\* The device-info request has been enqueued a second time, under the fifth
\* identifier, after the first one was transmitted and timed out.
C24_Witness ==
  /\ request_id_counter = 5
  /\ \E k \in Pending(<<"Inf", << >> >>) : request_queue[k].req_id = 4

(***************************************************************************)
(* Reconnecting                                                            *)
(***************************************************************************)

\* Disconnected: at the top of the outer loop, or inside the connect call.
Disconnected == tcp_pc \in {"connect", "connecting"}

\* The Connection Manager thread is scheduled again and again, and a connect
\* that is attempted again and again succeeds at some attempt: the device
\* is reachable often enough.  Shutdown may be signalled at any time.
ReconnectSpec ==
  /\ ShutdownInit
  /\ [][ShutdownNext]_vars
  /\ WF_vars(ConnectionManager)
  /\ SF_vars(TcpConnect /\ Connected')

WriteAttempt ==
  /\ tcp_pc = "send"
  /\ running
  /\ last_sent >= MaxGateAge
  /\ request_queue # << >>
  /\ ~request_queue[1].sent

\* What a run remembers of its write attempts: the identifier of the
\* request whose write failed last with no write having succeeded since,
\* how the last failed write failed, and the parity of the would-block
\* results.
AttemptsInit == [failed |-> None, last_failure |-> "none", would_blocks |-> 0]

\* The send section with its outcome recorded.
TrackedSend ==
  /\ SendSection
  /\ locals' =
       IF ~WriteAttempt THEN locals
       ELSE IF tcp_pc' = "read" THEN [locals EXCEPT !.failed = None]
       ELSE IF tcp_pc' = "send"
         THEN [failed |-> Some(request_queue[1].req_id),
               last_failure |-> "would-block",
               would_blocks |-> 1 - locals.would_blocks]
       ELSE [locals EXCEPT !.failed = Some(request_queue[1].req_id),
                           !.last_failure = "error"]
  /\ UNCHANGED locks

WriteInit ==
  /\ Constructed
  /\ device = "info"
  /\ codec = CodecIdle
  /\ locks = LocksFree
  /\ locals = AttemptsInit

\* The three threads against a device that sends device-info frames; the
\* clock is followed until the first request is on the wire.
WriteNext ==
  \/ TcpLoopTop
  \/ TcpConnect
  \/ TrackedSend
  \/ TcpRead
  \/ CorrelationEngine
  \/ Poller
  \/ TickUntilSent

WriteSpec == WriteInit /\ [][WriteNext]_vars

\* A write attempt failed in this step, with would-block or a hard error.
WriteFails == locals' # locals /\ locals'.failed # None

\* A write attempt succeeded in this step after an attempt had failed.
WriteSucceedsAfterFailure == locals.failed # None /\ locals'.failed = None

\* C26: a write attempt that fails leaves the front request unsent, without
\* a sent-at, and the request queue as it was; and the request a later
\* successful attempt transmits is the one whose write failed, on the same
\* connection or on a new one.
C26_FailedWriteKeepsFront ==
  /\ [][WriteFails =>
          /\ request_queue' = request_queue
          /\ ~request_queue'[1].sent
          /\ request_queue'[1].sent_at = None]_vars
  /\ [][WriteSucceedsAfterFailure =>
          /\ request_queue'[1].req_id = unwrap(locals.failed)
          /\ request_queue'[1].sent]_vars

\* C26 (amended): a write attempt that fails leaves the front request
\* unsent, without a sent-at, and the request queue as it was; the request
\* a later successful attempt transmits is the one whose write failed, on
\* the same connection or on a new one, unless the Correlation Engine has
\* removed that request from the queue in the meantime.
C26_FailedWriteKeepsFrontUnlessRemoved ==
  /\ [][WriteFails =>
          /\ request_queue' = request_queue
          /\ ~request_queue'[1].sent
          /\ request_queue'[1].sent_at = None]_vars
  /\ [][WriteSucceedsAfterFailure =>
          /\ request_queue'[1].sent
          /\ \/ request_queue'[1].req_id = unwrap(locals.failed)
             \/ ~Has(request_queue', unwrap(locals.failed))]_vars

\* The request whose write failed with a hard error has been transmitted
\* on the next connection.
C26_Witness ==
  /\ Connected
  /\ locals.failed = None
  /\ locals.last_failure = "error"
  /\ request_queue # << >>
  /\ request_queue[1].sent
  /\ request_queue[1].req_id = 0
  /\ request_id_counter = 1

(***************************************************************************)
(* Reads while the write would block                                       *)
(***************************************************************************)

\* The Connection Manager thread is scheduled again and again; what its
\* socket calls return is left open.
WriteFairSpec ==
  /\ WriteInit
  /\ [][WriteNext]_vars
  /\ WF_vars(TcpLoopTop \/ TcpConnect \/ TrackedSend \/ TcpRead)

\* C27: while connected, the Connection Manager comes to its read section
\* again and again whatever its write attempts return: from every connected
\* state it reaches the read section or the end of the connection, also
\* when the write of the front request returns would-block every time.
C27_ReadsRegardlessOfSend ==
  Connected ~> (tcp_pc = "read" \/ ~Connected)

(***************************************************************************)
(* Compaction under concurrent appends                                     *)
(***************************************************************************)

\* The entries of a queue stay where they are with their marks, and what is
\* appended behind them is unmarked.
Extended(queue, queue_after) ==
  /\ Len(queue_after) >= Len(queue)
  /\ \A k \in 1..Len(queue) :
       /\ queue_after[k].req_id = queue[k].req_id
       /\ queue_after[k].marked_as_deleted = queue[k].marked_as_deleted
  /\ \A k \in (Len(queue) + 1)..Len(queue_after) : Unmarked(queue_after[k])

FaultInit ==
  /\ Constructed
  /\ device = "faulty"
  /\ codec = CodecIdle
  /\ locks = LocksFree
  /\ locals = LocalsInit

FaultSpec == FaultInit /\ [][LockNext]_vars

\* The Connection Manager thread has ended in a panic.
Faulted == tcp_pc = "panicked"

\* A step of a thread other than the Connection Manager.
OtherThreadsStep ==
  \/ Acquire
  \/ LockedPass
  \/ LockedCleanRequests
  \/ LockedCleanResponses
  \/ LockedPollCheck
  \/ LockedPollPush
  \/ LockedSubmit

\* C29: a panic in the Connection Manager thread ends that thread only.  It
\* holds no lock when it ends, so no thread waits for it and no set of
\* threads waits in a circle; the shutdown flag stays clear and the
\* Correlation Engine and the Poller stay in their loops and one of the
\* living threads can always take its next step; the dead thread takes no
\* further step.
C29_FaultEndsOnlyConnectionManager ==
  /\ [](Faulted =>
          /\ \A l \in Locks : ~Holds("tcp", l)
          /\ \A t \in Threads : Blocked(t) => locks[Wants(t)] # "tcp"
          /\ \A S \in SUBSET Threads : ~CircularWait(S)
          /\ running
          /\ mm_pc \in {"pass", "clean", "clean_res"}
          /\ pr_pc \in {"inf", "dat0", "dat1", "dat2"}
          /\ ENABLED OtherThreadsStep)
  /\ [][Faulted => Faulted' /\ locals'.tcp = locals.tcp]_vars

\* After the panic the Poller has enqueued the second request of the run
\* and the Correlation Engine is in the middle of a compaction.
C29_Witness ==
  /\ Faulted
  /\ locals.tcp.pc = "run"
  /\ Len(locals.issued) = 2
  /\ mm_pc = "clean_res"

(***************************************************************************)
(* Requests that were never transmitted                                    *)
(***************************************************************************)

\* C30: a request is closed only after it was transmitted: no request in
\* the queue is marked deleted with its sent flag false, and no step
\* removes a request whose sent flag is false.
C30_UnsentNeverClosed ==
  /\ [](\A k \in 1..Len(request_queue) :
          request_queue[k].marked_as_deleted => request_queue[k].sent)
  /\ [][\A k \in 1..Len(request_queue) :
          ~request_queue[k].sent
          => Has(request_queue', request_queue[k].req_id)]_vars

\* The identifiers of the requests of a queue that are marked deleted.
MarkedIdsOf(queue) ==
  { queue[k].req_id :
      k \in { n \in 1..Len(queue) : queue[n].marked_as_deleted } }

\* C30 (amended): a request whose sent flag is false is never closed by
\* timeout.  Only a pass marks requests; a pass marks an unsent request
\* only together with a response of the response queue that carries its
\* identifier; and no step removes a request that is unsent and unmarked.
C30_UnsentClosedOnlyByMatch ==
  /\ [][~PassStep
        => MarkedIdsOf(request_queue') \subseteq MarkedIdsOf(request_queue)]_vars
  /\ [][PassStep =>
          \A k \in 1..Len(request_queue) :
            ( /\ ~request_queue[k].sent
              /\ Unmarked(request_queue[k])
              /\ request_queue'[k].marked_as_deleted )
            => \E j \in Answers(k) : response_queue'[j].marked_as_deleted]_vars
  /\ [][\A k \in 1..Len(request_queue) :
          (~request_queue[k].sent /\ Unmarked(request_queue[k]))
          => Has(request_queue', request_queue[k].req_id)]_vars

\* A pass has closed a request that was never transmitted, on a response
\* with its identifier.
C30_Witness ==
  /\ mm_pc = "clean"
  /\ \E k \in 1..Len(request_queue) :
       /\ request_queue[k].marked_as_deleted
       /\ ~request_queue[k].sent
       /\ \E j \in 1..Len(response_queue) :
            /\ response_queue[j].req_id = request_queue[k].req_id
            /\ response_queue[j].marked_as_deleted

(***************************************************************************)
(* Requests waiting unsent                                                 *)
(***************************************************************************)

\* C31: a request whose sent flag is false is never marked deleted by
\* timeout, however long it waits.  Against a device that never answers the
\* timeout is the only way a request is closed: there no request in the
\* queue is marked while unsent, and no step removes an unsent request.
C31_UnsentNeverTimedOut ==
  /\ [](\A k \in 1..Len(request_queue) :
          request_queue[k].marked_as_deleted => TimedOut(request_queue[k]))
  /\ [][\A k \in 1..Len(request_queue) :
          ~request_queue[k].sent
          => /\ Has(request_queue', request_queue[k].req_id)
             /\ \A n \in 1..Len(request_queue') :
                  request_queue'[n].req_id = request_queue[k].req_id
                  => Unmarked(request_queue'[n])]_vars

\* The front request was transmitted, has waited out the timeout and is
\* marked; the request behind it has waited as long, unsent and unmarked,
\* and the Connection Manager is disconnected.
C31_Witness ==
  /\ Len(request_queue) >= 2
  /\ request_queue[1].marked_as_deleted
  /\ TimedOut(request_queue[1])
  /\ ~request_queue[2].sent
  /\ Unmarked(request_queue[2])
  /\ Disconnected

(***************************************************************************)
(* Order of transmission                                                   *)
(***************************************************************************)

\* The request with identifier a was appended to the request queue before
\* the one with identifier b.
EnqueuedBefore(a, b) ==
  \E i, j \in 1..Len(locals.issued) :
    i < j /\ locals.issued[i] = a /\ locals.issued[j] = b

\* The request with this identifier is transmitted in this step.
Transmits(id) ==
  /\ \E k \in 1..Len(request_queue) :
       request_queue[k].req_id = id /\ ~request_queue[k].sent
  /\ id \in SentIdsOf(request_queue')

\* C32: requests go out in the order in which they were appended.  The
\* request a step transmits is the front of the queue; every request
\* appended before it has been transmitted already or has left the queue,
\* and a request that has left the queue is not appended again.
C32_TransmittedInQueueOrder ==
  /\ [][\A b \in SentIdsOf(request_queue') :
          Transmits(b) =>
            /\ request_queue[1].req_id = b
            /\ \A a \in SentIdsOf(request_queue') \cup
                         { request_queue[k].req_id : k \in 1..Len(request_queue) }
                         \cup { locals.issued[i] : i \in 1..Len(locals.issued) } :
                 EnqueuedBefore(a, b)
                 => a \in SentIds \/ ~InQueue(a)]_vars
  /\ [][\A i \in 1..Len(locals.issued) :
          ~InQueue(locals.issued[i])
          => ~Has(request_queue', locals.issued[i])]_vars

\* The second request of the run is on the wire after the first one was
\* transmitted, answered and removed.
C32_Witness ==
  /\ Len(locals.issued) = 2
  /\ shared_state # SharedState_new
  /\ request_queue # << >>
  /\ request_queue[1].req_id = locals.issued[2]
  /\ request_queue[1].sent
  /\ ~InQueue(locals.issued[1])

(***************************************************************************)
(* Several responses with one identifier                                   *)
(***************************************************************************)

\* A device that answers the device-info request twice, in one read or in
\* two, with different payloads.
RepeatsInit ==
  /\ Constructed
  /\ device = "repeats"
  /\ codec = CodecIdle
  /\ locks = LocksFree
  /\ locals = NoLocals

RepeatsSpec == RepeatsInit /\ [][RecordsNext]_vars

\* The categories of the device-state record.
Categories == DOMAIN SharedState_new

\* The responses of the queue that have no request with their identifier.
Orphans ==
  { j \in 1..Len(response_queue) :
      ~Has(request_queue, response_queue[j].req_id) }

\* C33: in one pass a request is matched with at most one response, the
\* first of the queue with its identifier; the later ones stay unmarked and
\* write nothing: a category that the pass changes holds the payload of the
\* first answer of some request.  A response that has no request is marked
\* and removed without a write to the record, and the request of a match is
\* removed with its response, so neither is applied again.
C33_OneResponsePerRequest ==
  /\ [][PassStep =>
          /\ \A i \in 1..Len(request_queue) :
               \A j \in Answers(i) :
                 j # First(Answers(i)) => Unmarked(response_queue'[j])
          /\ \A f \in Categories :
               shared_state'[f] # shared_state[f] =>
                 \E i \in 1..Len(request_queue) :
                   /\ Answers(i) # {}
                   /\ response_queue[First(Answers(i))].crc_is_valid
                   /\ shared_state'[f] =
                        response_queue[First(Answers(i))].command_data.data
          /\ \A j \in Orphans : response_queue'[j].marked_as_deleted
          /\ Orphans = 1..Len(response_queue) => shared_state' = shared_state
          /\ \A i \in 1..Len(request_queue) :
               Answers(i) # {} /\ response_queue'[First(Answers(i))].marked_as_deleted
               => request_queue'[i].marked_as_deleted]_vars
  /\ [][CompactionStep =>
          /\ request_queue' = Retain(request_queue)
          /\ response_queue' = Retain(response_queue)
          /\ shared_state' = shared_state]_vars

\* The second of two responses with one identifier waits in the queue as an
\* orphan: the first was applied, its request is gone, and the record holds
\* the first payload.
C33_Witness ==
  /\ mm_pc = "pass"
  /\ Len(response_queue) = 1
  /\ Orphans = {1}
  /\ response_queue[1].crc_is_valid
  /\ response_queue[1].command_data.variant = "Inf"
  /\ shared_state.inf # INFData_default
  /\ shared_state.inf # response_queue[1].command_data.data

(***************************************************************************)
(* The category a match writes                                             *)
(***************************************************************************)

\* The category of the record that the setter of a payload variant writes
\* (tcp_client.rs lines 250-264); "none" for a variant without a setter.
CategoryOf(variant) ==
  CASE variant = "Inf"  -> "inf"
    [] variant = "Dat0" -> "dat0"
    [] variant = "Dat1" -> "dat1"
    [] variant = "Dat2" -> "dat2"
    [] OTHER            -> "none"

\* Request i is matched in this pass with the first response that carries
\* its identifier.
Matched(i) ==
  /\ Unmarked(request_queue[i])
  /\ Answers(i) # {}
  /\ request_queue'[i].marked_as_deleted
  /\ response_queue'[First(Answers(i))].marked_as_deleted

\* The category that the match of request i writes: the one of the answer's
\* payload, "none" when the checksum failed.
Written(i) ==
  LET res == response_queue[First(Answers(i))]
  IN IF res.crc_is_valid THEN CategoryOf(res.command_data.variant) ELSE "none"

\* C34: what a match writes is decided by the payload variant of the
\* response alone.  The category of the variant holds the payload after the
\* pass (unless a later match of the pass wrote the same category), a
\* category that is no matched response's stays as it was, and the command
\* of the request plays no part: a lone response with the identifier of a
\* queued request is matched with it and closes it whatever it asked for.
C34_ResponseVariantDecidesCategory ==
  [][PassStep =>
       /\ \A i \in 1..Len(request_queue) :
            (Matched(i) /\ Written(i) # "none") =>
              \/ shared_state'[Written(i)] =
                   response_queue[First(Answers(i))].command_data.data
              \/ \E k \in (i + 1)..Len(request_queue) :
                   Matched(k) /\ Written(k) = Written(i)
       /\ \A f \in Categories :
            (\A i \in 1..Len(request_queue) : Matched(i) => Written(i) # f)
            => shared_state'[f] = shared_state[f]
       /\ \A i \in 1..Len(request_queue) :
            ( /\ Unmarked(request_queue[i])
              /\ Len(response_queue) = 1
              /\ Answers(i) = {1} )
            => Matched(i)]_vars

\* The device-info request is closed and removed by a checksum-valid page-0
\* response: page 0 of the record is written, the device information still
\* has its initial value.
C34_Witness ==
  /\ shared_state.dat0 # DAT0Data_default
  /\ shared_state.inf = INFData_default
  /\ \A k \in 1..Len(request_queue) : request_queue[k].command # "Inf"
  /\ request_id_counter = 1
  /\ mm_pc = "pass"

(***************************************************************************)
(* What ends the Connected state                                           *)
(***************************************************************************)

\* What a run remembers of the Connection Manager's last section: which one
\* it was and what its socket call returned ("None": no call was made).
SocketInit ==
  /\ Constructed
  /\ device = "info"
  /\ codec = CodecIdle
  /\ locks = LocksFree
  /\ locals = [section |-> "none", outcome |-> "None"]

\* The send section with its outcome recorded.
TrackedWrite ==
  \E outcome \in {"None"} \cup WriteOutcomes :
    /\ SendWith(outcome)
    /\ locals' = [section |-> "send", outcome |-> outcome]
    /\ UNCHANGED locks

\* The read section with its outcome recorded.
TrackedRead ==
  \E outcome \in ReadOutcomes :
    /\ ReadWith(outcome)
    /\ locals' = [section |-> "read", outcome |-> outcome]
    /\ UNCHANGED locks

\* The three threads against a device that sends device-info frames, with
\* the shutdown signal; the clock is followed until the first request is on
\* the wire.
SocketNext ==
  \/ TcpLoopTop
  \/ TcpConnect
  \/ TrackedWrite
  \/ TrackedRead
  \/ CorrelationEngine
  \/ Poller
  \/ TickUntilSent
  \/ Shutdown

SocketSpec == SocketInit /\ [][SocketNext]_vars

\* The read section runs in this step and its read returns zero bytes.
ZeroRead == tcp_pc = "read" /\ tcp_pc' # "read" /\ locals'.outcome = "Zero"

\* C35: a read of zero bytes leaves the response queue as it is and the
\* Connection Manager connected, at the top of its inner loop; and a step
\* that takes the Connection Manager from Connected to Disconnected is a
\* write or a read that returned an error other than would-block.
C35_ZeroReadStaysConnected ==
  /\ [][ZeroRead =>
          /\ response_queue' = response_queue
          /\ tcp_pc' = "send"]_vars
  /\ [][(Connected /\ Disconnected') =>
          /\ locals'.outcome = "Err"
          /\ locals'.section = IF tcp_pc = "send" THEN "send" ELSE "read"]_vars

\* The peer closed the connection while the front request waits for its
\* answer: the read returned zero bytes and the Connection Manager is still
\* connected.
C35_Witness ==
  /\ locals.section = "read"
  /\ locals.outcome = "Zero"
  /\ tcp_pc = "send"
  /\ running
  /\ request_queue # << >>
  /\ request_queue[1].sent
  /\ response_queue = << >>

(***************************************************************************)
(* The queues at the start of a pass                                       *)
(***************************************************************************)

\* The number of marked entries of a queue.
MarkedCount(queue) ==
  Cardinality({ n \in 1..Len(queue) : queue[n].marked_as_deleted })

\* C36: when a pass starts, no request and no response is marked, so the
\* request that the first loop finds for a response (the first of the
\* queue with the response's identifier) is never a marked one and the
\* warning for a response to a timed-out request is not reached.  Marks
\* are set by the pass alone: no other step of any thread adds a marked
\* entry to either queue.
C36_PassStartsUnmarked ==
  /\ [][PassStep =>
          /\ MarkedCount(request_queue) = 0
          /\ MarkedCount(response_queue) = 0
          /\ \A j \in 1..Len(response_queue) :
               LET i == FindRequest(request_queue, response_queue[j].req_id, 1)
               IN i # 0 => Unmarked(request_queue[i])]_vars
  /\ [][~PassStep =>
          /\ MarkedCount(request_queue') <= MarkedCount(request_queue)
          /\ MarkedCount(response_queue') <= MarkedCount(response_queue)]_vars

\* The case the warning was written for: a pass starts with a checksum-valid
\* response in the queue whose request was closed and removed before the
\* response was read, with nothing written to the record; the first loop
\* finds no request for it.
C36_Witness ==
  /\ mm_pc = "pass"
  /\ Len(response_queue) = 1
  /\ response_queue[1].req_id = 0
  /\ ~InQueue(0)
  /\ request_id_counter > 0
  /\ shared_state = SharedState_new
  /\ request_queue # << >>
  /\ response_queue[1].crc_is_valid

(***************************************************************************)
(* The sent flag and the sent-at instant                                   *)
(***************************************************************************)

\* C37: a request's sent flag is set exactly when its sent-at instant is
\* set; a request that has them keeps them for as long as it is in the
\* queue: the flag stays set and the instant is not taken again (its age
\* never falls, and it grows only in a step of the clock, by that step).
\* So the timeout test of a pass unwraps an instant that is there.
C37_SentIffSentAt ==
  /\ [](\A k \in 1..Len(request_queue) :
          request_queue[k].sent <=> request_queue[k].sent_at # None)
  /\ [][\A k \in 1..Len(request_queue) :
          request_queue[k].sent =>
            \A n \in 1..Len(request_queue') :
              request_queue'[n].req_id = request_queue[k].req_id =>
                /\ request_queue'[n].sent
                /\ request_queue'[n].sent_at # None
                /\ \/ request_queue'[n].sent_at = request_queue[k].sent_at
                   \/ /\ unwrap(request_queue'[n].sent_at) =
                           Min(unwrap(request_queue[k].sent_at) + ClockStep,
                               MaxSentAge)
                      /\ Len(request_queue') = Len(request_queue)
                      /\ mm_pc' = mm_pc /\ tcp_pc' = tcp_pc /\ pr_pc' = pr_pc]_vars
  /\ [][PassStep =>
          \A k \in 1..Len(request_queue) :
            request_queue[k].sent => request_queue[k].sent_at # None]_vars

\* A pass is about to test the front request, sent more than five seconds
\* ago, for timeout, while the request behind it has neither flag nor
\* instant.
C37_Witness ==
  /\ mm_pc = "pass"
  /\ Len(request_queue) >= 2
  /\ request_queue[1].sent
  /\ as_secs(unwrap(request_queue[1].sent_at)) > TimeoutSecs
  /\ ~request_queue[2].sent
  /\ request_queue[2].sent_at = None
  /\ Connected

====
